---------------------------- MODULE Spec2Model ----------------------------
(***************************************************************************)
(* Metrics aggregation engine of the extension (MetricsService): the       *)
(* getMetrics cache protocol, the background staleness check, the          *)
(* incremental and full recompute pipelines, the event extractor and the   *)
(* metrics calculator, together with the controller operations that        *)
(* change the task history.                                                *)
(*                                                                         *)
(* Conventions.  Times are epoch milliseconds.  An optional number that is *)
(* undefined is UNDEF, an optional string that is undefined or empty is    *)
(* NoStr (the code only tests such strings for truthiness).  An optional   *)
(* persisted value is a sequence: << >> when absent, <<v>> when present.   *)
(* Costs are integers (a fixed decimal unit).  Calendar days are day       *)
(* numbers (floor(ts / DayMs), the UTC date of toISOString); the host is   *)
(* taken to run in UTC.  Quotients the code computes in floating point     *)
(* (averages, success rates) are kept as reduced fractions.                *)
(***************************************************************************)
EXTENDS Integers, Sequences, FiniteSets, TLC

UNDEF == 0 - 1
NoStr == ""
None == << >>
Some(v) == <<v>>

\* Program constants
FreshnessWindowMs == 5000
MinuteMs == 60000
DayMs == 86400000
TrailingDays == 30
LastFew == 5
ManyMessages == 10
RecentCheckpoint == 5

--------------------------------------------------------------------------
\* Arithmetic helpers

Max2(a, b) == IF a >= b THEN a ELSE b

Abs(x) == IF x < 0 THEN 0 - x ELSE x

RECURSIVE Gcd(_, _)
Gcd(a, b) == IF b = 0 THEN a ELSE Gcd(b, a % b)

\* n / d as the code computes it (a double), kept as a reduced fraction
Ratio(n, d) ==
    IF n = 0 THEN [num |-> 0, den |-> 1]
    ELSE LET g == Gcd(n, d) IN [num |-> n \div g, den |-> d \div g]

SetMin(S) == CHOOSE x \in S : \A y \in S : x <= y
SetMax(S) == CHOOSE x \in S : \A y \in S : x >= y

\* The elements of a non-empty finite set of integers, ascending
SortedSeq(S) ==
    LET lo == SetMin(S)
        hi == SetMax(S)
    IN  SelectSeq([i \in 1..(hi - lo + 1) |-> lo + i - 1], LAMBDA d : d \in S)

\* The sum of the field f over the records s[i], s[i+1], ...
RECURSIVE SumSeq(_, _, _)
SumSeq(s, f, i) == IF i > Len(s) THEN 0 ELSE s[i][f] + SumSeq(s, f, i + 1)

Range(s) == {s[i] : i \in 1..Len(s)}

DayOf(ts) == ts \div DayMs

--------------------------------------------------------------------------
\* Raw fact store

EmptyRawData == [tasks |-> << >>, tokenUsage |-> << >>, toolUsage |-> << >>,
                 modeSwitches |-> << >>]

\* rawData.tasks.push({...}) of processTaskChunk and collectRawMetricsData
TaskRecordOf(task) ==
    [id |-> task.id, startTime |-> task.ts, completed |-> (task.completed = "true"),
     completedTs |-> task.completedTs, endTime |-> UNDEF, model |-> NoStr,
     mode |-> NoStr]

\* rawData.tokenUsage.push({...}) from the history item (cacheWrites and
\* cacheReads, which no calculation reads, are left out)
UsageOfItem(task) ==
    IF task.tokensIn > 0 \/ task.tokensOut > 0 \/ task.totalCost > 0
    THEN [taskId |-> task.id, tokensIn |-> task.tokensIn, tokensOut |-> task.tokensOut,
          model |-> "unknown", timestamp |-> task.ts, cost |-> task.totalCost]
    ELSE [taskId |-> task.id, tokensIn |-> 0, tokensOut |-> 0,
          model |-> "unknown", timestamp |-> task.ts, cost |-> 0]

removeTaskData(rawData, taskId) ==
    [tasks |-> SelectSeq(rawData.tasks, LAMBDA t : t.id # taskId),
     tokenUsage |-> SelectSeq(rawData.tokenUsage, LAMBDA u : u.taskId # taskId),
     toolUsage |-> SelectSeq(rawData.toolUsage, LAMBDA u : u.taskId # taskId),
     modeSwitches |-> SelectSeq(rawData.modeSwitches, LAMBDA m : m.taskId # taskId)]

removeDeletedTaskData(rawData, deletedTaskIds) ==
    [tasks |-> SelectSeq(rawData.tasks, LAMBDA t : t.id \notin deletedTaskIds),
     tokenUsage |-> SelectSeq(rawData.tokenUsage, LAMBDA u : u.taskId \notin deletedTaskIds),
     toolUsage |-> SelectSeq(rawData.toolUsage, LAMBDA u : u.taskId \notin deletedTaskIds),
     modeSwitches |-> SelectSeq(rawData.modeSwitches, LAMBDA m : m.taskId \notin deletedTaskIds)]

\* rawData.tasks.findIndex(task => task.id === taskId), 1-based; 0 when absent
FindTaskIndex(rawData, taskId) ==
    IF \E i \in 1..Len(rawData.tasks) : rawData.tasks[i].id = taskId
    THEN SetMin({i \in 1..Len(rawData.tasks) : rawData.tasks[i].id = taskId})
    ELSE 0

--------------------------------------------------------------------------
\* Transcript events (ClineMessage).  text is the message text: present is
\* its truthiness, parses whether JSON.parse accepts it; the payload fields
\* are the parsed object's (numbers after the string coercion), attempt is
\* text.includes("attempt_completion"), result is
\* text.includes("completion_result"), switching is NoStr unless the text
\* includes "Switching to" ("act" when it includes "Switching to Act mode",
\* else "plan").

NoText ==
    [present |-> FALSE, parses |-> FALSE, tokensIn |-> 0, tokensOut |-> 0, cost |-> 0,
     model |-> NoStr, tool |-> NoStr, success |-> TRUE, attempt |-> FALSE,
     result |-> FALSE, switching |-> NoStr]

Msg(type, sub, ts, text, hash) ==
    [type |-> type, say |-> IF type = "say" THEN sub ELSE NoStr,
     ask |-> IF type = "ask" THEN sub ELSE NoStr, ts |-> ts, text |-> text,
     lastCheckpointHash |-> hash]

ApiText(tin, tout, cost, model) ==
    [NoText EXCEPT !.present = TRUE, !.parses = TRUE, !.tokensIn = tin,
                   !.tokensOut = tout, !.cost = cost, !.model = model]

ToolText(tool, success) ==
    [NoText EXCEPT !.present = TRUE, !.parses = TRUE, !.tool = tool,
                   !.success = success, !.attempt = (tool = "attempt_completion"),
                   !.result = (tool = "completion_result")]

BadJsonText == [NoText EXCEPT !.present = TRUE]

SwitchText(mode) == [NoText EXCEPT !.present = TRUE, !.switching = mode]

IsSay(m, sub) == m.type = "say" /\ m.say = sub
IsAsk(m, sub) == m.type = "ask" /\ m.ask = sub

\* One iteration of the message loop of extractMetricsFromMessages on the
\* i-th message (1-based) of a transcript of n messages.  st carries rawData
\* and the loop's locals; k is the task's index in rawData.tasks.
\* The token branch without its try block: an unparseable text still
\* records an entry
ExtractTokenUsageUntried(st, m, taskId, k) ==
    IF (IsSay(m, "api_req_finished") \/ IsSay(m, "api_req_started")) /\ m.text.present
    THEN [st EXCEPT !.raw.tokenUsage =
                        Append(@, [taskId |-> taskId, tokensIn |-> m.text.tokensIn,
                                   tokensOut |-> m.text.tokensOut, model |-> "unknown",
                                   timestamp |-> m.ts, cost |-> m.text.cost])]
    ELSE st

ExtractTokenUsage(st, m, taskId, k) ==
    IF (IsSay(m, "api_req_finished") \/ IsSay(m, "api_req_started")) /\ m.text.present
       /\ m.text.parses
    THEN LET named == m.text.model # NoStr /\ m.text.model # "unknown"
             usage == [taskId |-> taskId, tokensIn |-> m.text.tokensIn,
                       tokensOut |-> m.text.tokensOut,
                       model |-> IF m.text.model # NoStr THEN m.text.model ELSE "unknown",
                       timestamp |-> m.ts, cost |-> m.text.cost]
         IN  [st EXCEPT !.lastModel = IF named THEN m.text.model ELSE @,
                        !.raw.tasks[k].model = IF named THEN m.text.model ELSE @,
                        !.raw.tokenUsage = Append(@, usage)]
    ELSE st

ExtractToolUsage(st, m, taskId, k) ==
    IF IsSay(m, "tool") /\ m.text.present /\ m.text.parses
    THEN LET toolName == IF m.text.tool # NoStr THEN m.text.tool ELSE "unknown"
             usage == [taskId |-> taskId, tool |-> toolName, success |-> m.text.success,
                       timestamp |-> m.ts]
             done == toolName = "completion_result" \/ m.text.attempt
         IN  [st EXCEPT !.raw.toolUsage = Append(@, usage),
                        !.raw.tasks[k].completed = IF done THEN TRUE ELSE @,
                        !.completionDetected = IF done THEN TRUE ELSE @]
    ELSE st

ExtractModeSwitch(st, m, taskId, k) ==
    IF m.type = "say" /\ m.text.present /\ m.text.switching # NoStr
    THEN [st EXCEPT !.lastMode = m.text.switching,
                    !.raw.tasks[k].mode = m.text.switching,
                    !.raw.modeSwitches =
                        Append(@, [taskId |-> taskId, mode |-> m.text.switching,
                                   timestamp |-> m.ts])]
    ELSE st

MarkCompleted(st, k, ts) ==
    [st EXCEPT !.raw.tasks[k].completed = TRUE, !.raw.tasks[k].completedTs = ts,
               !.completionDetected = TRUE]

ExtractCompletion(st, m, i, n, k) ==
    LET s1 == IF IsSay(m, "completion_result") THEN MarkCompleted(st, k, m.ts) ELSE st
        s2 == IF IsAsk(m, "completion_result") THEN MarkCompleted(s1, k, m.ts) ELSE s1
        s3 == IF IsSay(m, "user_feedback") /\ i - 1 > 0
              THEN MarkCompleted(s2, k, m.ts) ELSE s2
        s4 == IF IsSay(m, "checkpoint_created") /\ m.lastCheckpointHash
                 /\ i - 1 > n - RecentCheckpoint
              THEN MarkCompleted(s3, k, m.ts) ELSE s3
    IN  s4

ExtractStep(st, m, i, n, taskId, k) ==
    LET s0 == [st EXCEPT !.lastMessageTs = IF m.ts > @ THEN m.ts ELSE @]
        s1 == ExtractTokenUsage(s0, m, taskId, k)
        s2 == ExtractToolUsage(s1, m, taskId, k)
        s3 == ExtractModeSwitch(s2, m, taskId, k)
    IN  ExtractCompletion(s3, m, i, n, k)

RECURSIVE ExtractLoop(_, _, _, _, _)
ExtractLoop(st, messages, i, taskId, k) ==
    IF i > Len(messages) THEN st
    ELSE ExtractLoop(ExtractStep(st, messages[i], i, Len(messages), taskId, k),
                     messages, i + 1, taskId, k)

\* The heuristic after the loop, the endTime, and the model and mode
ExtractFinish(st, messages, k, now) ==
    LET n == Len(messages)
        lastFewMessages == SubSeq(messages, Max2(1, n - LastFew + 1), n)
        hasFeedbackNearEnd ==
            \E j \in 1..Len(lastFewMessages) : IsSay(lastFewMessages[j], "user_feedback")
        lastMessageTime == lastFewMessages[Len(lastFewMessages)].ts
        isOldTask == now - lastMessageTime > DayMs
        heuristic == ~st.completionDetected /\ n > ManyMessages
                     /\ (hasFeedbackNearEnd \/ isOldTask)
        t1 == IF heuristic
              THEN [st.raw.tasks[k] EXCEPT !.completed = TRUE,
                                           !.completedTs = lastMessageTime]
              ELSE st.raw.tasks[k]
        t2 == [t1 EXCEPT !.endTime = IF st.lastMessageTs > 0 THEN st.lastMessageTs ELSE @,
                         !.model = IF st.lastModel # NoStr THEN st.lastModel ELSE @,
                         !.mode = IF st.lastMode # NoStr THEN st.lastMode ELSE "act"]
    IN  [st.raw EXCEPT !.tasks[k] = t2]

extractMetricsFromMessages(messages, taskId, rawData, now) ==
    LET k == FindTaskIndex(rawData, taskId)
        st0 == [raw |-> rawData, lastMessageTs |-> 0, lastModel |-> NoStr,
                lastMode |-> NoStr, completionDetected |-> FALSE]
    IN  IF k = 0 THEN rawData
        ELSE ExtractFinish(ExtractLoop(st0, messages, 1, taskId, k), messages, k, now)

--------------------------------------------------------------------------
\* The completion status of the tasks of the history at startup

IsCompletionResult(m) == IsSay(m, "completion_result") \/ IsAsk(m, "completion_result")

IsCompletionTool(m) ==
    IsSay(m, "tool") /\ m.text.present /\ (m.text.result \/ m.text.attempt)

\* messages.slice(-5), as the set of its (1-based) positions in messages
LastFewPositions(messages) ==
    Max2(1, Len(messages) - LastFew + 1)..Len(messages)

detectTaskCompletion(messages, now) ==
    LET n == Len(messages)
        hasCompletionResult == \E i \in 1..n : IsCompletionResult(messages[i])
        hasCompletionTool == \E i \in 1..n : IsCompletionTool(messages[i])
        hasFeedbackNearEnd ==
            \E i \in LastFewPositions(messages) : IsSay(messages[i], "user_feedback")
        lastMessageTime == IF n > 0 THEN messages[n].ts ELSE 0
        isOldTask == now - lastMessageTime > DayMs
    IN  \/ hasCompletionResult
        \/ hasCompletionTool
        \/ hasFeedbackNearEnd
        \/ isOldTask /\ n > ManyMessages

\* Array.prototype.find: the ts of the first message among positions that
\* satisfies the test (positions is not empty)
FirstTs(messages, positions) == messages[SetMin(positions)].ts

findCompletionTimestamp(messages) ==
    LET n == Len(messages)
        results == {i \in 1..n : IsCompletionResult(messages[i])}
        tools == {i \in 1..n : IsCompletionTool(messages[i])}
        feedback == {i \in LastFewPositions(messages) :
                        IsSay(messages[i], "user_feedback")}
    IN  IF results # {} THEN FirstTs(messages, results)
        ELSE IF tools # {} THEN FirstTs(messages, tools)
        ELSE IF feedback # {} THEN FirstTs(messages, feedback)
        ELSE IF n > 0 THEN messages[n].ts ELSE UNDEF

\* What updateExistingTaskHistory writes into a history item from the
\* transcript of its task
Reconciled(task, messages, now) ==
    LET isCompleted == detectTaskCompletion(messages, now)
    IN  [task EXCEPT !.completed = IF isCompleted THEN "true" ELSE "false",
                     !.completedTs = IF isCompleted THEN findCompletionTimestamp(messages)
                                     ELSE UNDEF]

--------------------------------------------------------------------------
\* Metrics calculator

Truthy(n) == n # UNDEF /\ n # 0

\* Array.prototype.sort by the field f, ascending or descending, is stable:
\* x goes before the first element it sorts strictly before
RECURSIVE InsertStable(_, _, _, _, _)
InsertStable(s, x, f, descending, i) ==
    IF i > Len(s) THEN Append(s, x)
    ELSE IF (IF descending THEN x[f] > s[i][f] ELSE x[f] < s[i][f])
         THEN SubSeq(s, 1, i - 1) \o <<x>> \o SubSeq(s, i, Len(s))
         ELSE InsertStable(s, x, f, descending, i + 1)

RECURSIVE StableSort(_, _, _, _)
StableSort(s, f, descending, i) ==
    IF i = 0 THEN << >>
    ELSE InsertStable(StableSort(s, f, descending, i - 1), s[i], f, descending, 1)

\* The values of a sequence in order of first appearance (Map key order)
RECURSIVE FirstSeen(_, _)
FirstSeen(s, i) ==
    IF i = 0 THEN << >>
    ELSE LET r == FirstSeen(s, i - 1)
         IN  IF s[i] \in Range(r) THEN r ELSE Append(r, s[i])

\* const key = `${usage.taskId}-${roundedTimestamp}-${usage.model}`
DedupKey(usage) ==
    LET roundedTimestamp == (usage.timestamp \div MinuteMs) * MinuteMs
    IN  usage.taskId \o "-" \o ToString(roundedTimestamp) \o "-" \o usage.model

\* A replacement test that looks at tokensIn alone
DedupReplacesOnTokensIn(usage, existing) == usage.tokensIn > existing.tokensIn

\* if (usage.tokensIn > existing.tokensIn || ... ) of deduplicateTokenUsage
DedupReplaces(usage, existing) ==
    \/ usage.tokensIn > existing.tokensIn
    \/ usage.tokensOut > existing.tokensOut
    \/ (usage.cost # 0 /\ (existing.cost = 0 \/ usage.cost > existing.cost))

\* A merge that stamps the merged entry with the end of its minute
DedupMergeAtMinuteEnd(usage, existing) ==
    [taskId |-> usage.taskId,
     tokensIn |-> Max2(existing.tokensIn, usage.tokensIn),
     tokensOut |-> Max2(existing.tokensOut, usage.tokensOut),
     model |-> usage.model,
     timestamp |-> (usage.timestamp \div MinuteMs) * MinuteMs + MinuteMs,
     cost |-> Max2(existing.cost, usage.cost)]

DedupMerge(usage, existing) ==
    [taskId |-> usage.taskId,
     tokensIn |-> Max2(existing.tokensIn, usage.tokensIn),
     tokensOut |-> Max2(existing.tokensOut, usage.tokensOut),
     model |-> usage.model,
     timestamp |-> usage.timestamp,
     cost |-> Max2(existing.cost, usage.cost)]

\* The Map groupedByTaskAndTime after the first i entries of sortedUsage, as
\* the sequence of its entries in insertion order
RECURSIVE DedupLoop(_, _)
DedupLoop(sortedUsage, i) ==
    IF i = 0 THEN << >>
    ELSE LET grouped == DedupLoop(sortedUsage, i - 1)
             usage == sortedUsage[i]
             key == DedupKey(usage)
             hit == {j \in 1..Len(grouped) : grouped[j].key = key}
         IN  IF hit = {} THEN Append(grouped, [key |-> key, value |-> usage])
             ELSE LET j == CHOOSE x \in hit : TRUE
                      existing == grouped[j].value
                  IN  IF DedupReplaces(usage, existing)
                      THEN [grouped EXCEPT ![j].value = DedupMerge(usage, existing)]
                      ELSE grouped

deduplicateTokenUsage(tokenUsage) ==
    LET sortedUsage == StableSort(tokenUsage, "timestamp", FALSE, Len(tokenUsage))
        groupedByTaskAndTime == DedupLoop(sortedUsage, Len(sortedUsage))
    IN  [j \in 1..Len(groupedByTaskAndTime) |-> groupedByTaskAndTime[j].value]

\* The day buckets of a per-day series: the trailing days and every day of
\* the data, ascending
DayBuckets(now, dataDays) ==
    SortedSeq({DayOf(now) - i : i \in 0..(TrailingDays - 1)} \cup dataDays)

\* const endTime = task.completedTs || task.endTime
endTimeOf(task) == IF Truthy(task.completedTs) THEN task.completedTs ELSE task.endTime

\* A completion time that keeps the sign of the difference
signedTimeDiff(task) == endTimeOf(task) - task.startTime

\* What a task adds to totalCompletionTime: timeDiff, or Math.abs(timeDiff)
\* when it is negative
absTimeDiff(task) == Abs(endTimeOf(task) - task.startTime)

calculateTaskMetrics(rawData, now) ==
    LET tasks == rawData.tasks
        Timed(t) == t.completed /\ t.startTime # 0 /\ Truthy(endTimeOf(t))
        timed == SelectSeq(tasks, Timed)
        totalCompletionTime ==
            SumSeq([i \in 1..Len(timed) |-> [timeDiff |-> absTimeDiff(timed[i])]],
                   "timeDiff", 1)
        started == SelectSeq(tasks, LAMBDA t : t.startTime # 0)
        days == DayBuckets(now, {DayOf(t.startTime) : t \in Range(started)})
    IN  [totalTasks |-> Len(tasks),
         completedTasks |-> Len(SelectSeq(tasks, LAMBDA t : t.completed)),
         averageCompletionTimeMs |->
             IF Len(timed) > 0 THEN Ratio(totalCompletionTime, Len(timed))
             ELSE Ratio(0, 1),
         tasksPerDay |->
             [i \in 1..Len(days) |->
                 [date |-> days[i],
                  count |-> Len(SelectSeq(started, LAMBDA t : DayOf(t.startTime) = days[i]))]]]

calculateTokenMetrics(rawData, now) ==
    LET dedup == deduplicateTokenUsage(rawData.tokenUsage)
        dated == SelectSeq(dedup, LAMBDA u : u.timestamp # 0)
        days == DayBuckets(now, {DayOf(u.timestamp) : u \in Range(dated)})
        OnDay(d) == SelectSeq(dated, LAMBDA u : DayOf(u.timestamp) = d)
    IN  [lastUpdated |-> now, timestamp |-> now,
         totalTokensIn |-> SumSeq(dedup, "tokensIn", 1),
         totalTokensOut |-> SumSeq(dedup, "tokensOut", 1),
         totalCost |-> SumSeq(dedup, "cost", 1),
         usageByDay |->
             [i \in 1..Len(days) |->
                 [date |-> days[i],
                  tokensIn |-> SumSeq(OnDay(days[i]), "tokensIn", 1),
                  tokensOut |-> SumSeq(OnDay(days[i]), "tokensOut", 1),
                  cost |-> SumSeq(OnDay(days[i]), "cost", 1)]]]

calculateToolMetrics(rawData) ==
    LET uses == rawData.toolUsage
        names == FirstSeen([i \in 1..Len(uses) |-> uses[i].tool], Len(uses))
        Row(name) ==
            LET count == Len(SelectSeq(uses, LAMBDA u : u.tool = name))
                successes == Len(SelectSeq(uses, LAMBDA u : u.tool = name /\ u.success))
            IN  [name |-> name, count |-> count, successRate |-> Ratio(successes, count)]
        rows == [i \in 1..Len(names) |-> Row(names[i])]
    IN  [tools |-> StableSort(rows, "count", TRUE, Len(rows))]

calculateModelMetrics(rawData) ==
    LET named == SelectSeq(rawData.tasks, LAMBDA t : t.model # NoStr)
        names == FirstSeen([i \in 1..Len(named) |-> named[i].model], Len(named))
        rows == [i \in 1..Len(names) |->
                    [name |-> names[i],
                     count |-> Len(SelectSeq(named, LAMBDA t : t.model = names[i]))]]
        ModeCount(mode) == Len(SelectSeq(rawData.tasks, LAMBDA t : t.mode = mode))
                           + Len(SelectSeq(rawData.modeSwitches, LAMBDA m : m.mode = mode))
    IN  [models |-> StableSort(rows, "count", TRUE, Len(rows)),
         modeUsage |-> [plan |-> ModeCount("plan"), act |-> ModeCount("act")]]

calculateMetrics(rawData, now) ==
    [lastUpdated |-> now, timestamp |-> now,
     taskMetrics |-> calculateTaskMetrics(rawData, now),
     tokenMetrics |-> calculateTokenMetrics(rawData, now),
     toolMetrics |-> calculateToolMetrics(rawData),
     modelMetrics |-> calculateModelMetrics(rawData)]

\* A range whose cutoff is always thirty days back
daysToSubtractThirty(range) == 30

\* const daysToSubtract = range === "7d" ? 7 : 30
daysToSubtract(range) == IF range = "7d" THEN 7 ELSE 30

\* cutoffDate.setDate(cutoffDate.getDate() - n): the instant n days before ts
\* (stepped a day at a time, within the integers of the checker)
RECURSIVE DaysBefore(_, _)
DaysBefore(ts, n) == IF n = 0 THEN ts ELSE DaysBefore(ts - DayMs, n - 1)

\* new Date(item.date).getTime(): the midnight that starts the day
DateTime(date) == date * DayMs

\* getMetricsForDateRange after its await of getMetrics: allMetrics is the
\* snapshot getMetrics returned, now the clock read after it
getMetricsForDateRange(range, allMetrics, now) ==
    IF range = "all" THEN allMetrics
    ELSE LET cutoffTimestamp == DaysBefore(now, daysToSubtract(range))
             filteredTasksPerDay ==
                 SelectSeq(allMetrics.taskMetrics.tasksPerDay,
                           LAMBDA item : DateTime(item.date) >= cutoffTimestamp)
             filteredUsageByDay ==
                 SelectSeq(allMetrics.tokenMetrics.usageByDay,
                           LAMBDA item : DateTime(item.date) >= cutoffTimestamp)
         IN  [allMetrics EXCEPT
                 !.taskMetrics.tasksPerDay = filteredTasksPerDay,
                 !.tokenMetrics.totalTokensIn = SumSeq(filteredUsageByDay, "tokensIn", 1),
                 !.tokenMetrics.totalTokensOut = SumSeq(filteredUsageByDay, "tokensOut", 1),
                 !.tokenMetrics.totalCost = SumSeq(filteredUsageByDay, "cost", 1),
                 !.tokenMetrics.usageByDay = filteredUsageByDay]

getEmptyMetrics(now) ==
    [lastUpdated |-> now, timestamp |-> now,
     taskMetrics |-> [totalTasks |-> 0, completedTasks |-> 0,
                      averageCompletionTimeMs |-> Ratio(0, 1), tasksPerDay |-> << >>],
     tokenMetrics |-> [totalTokensIn |-> 0, totalTokensOut |-> 0, totalCost |-> 0,
                       usageByDay |-> << >>],
     toolMetrics |-> [tools |-> << >>],
     modelMetrics |-> [models |-> << >>, modeUsage |-> [plan |-> 0, act |-> 0]]]

--------------------------------------------------------------------------
\* Incremental aggregation cache: pure parts

TaskIdsOf(taskHistory) == {taskHistory[i].id : i \in 1..Len(taskHistory)}

buildTaskMetadataIndex(taskHistory, rawData, memCache) ==
    [id \in TaskIdsOf(taskHistory) |->
        LET task == CHOOSE t \in Range(taskHistory) : t.id = id
            k == FindTaskIndex(rawData, id)
        IN  [lastModified |-> task.ts,
             messageCount |-> IF memCache[id] # None THEN Len(memCache[id][1]) ELSE 0,
             hasTokenData |-> \E u \in Range(rawData.tokenUsage) : u.taskId = id,
             hasCompletionStatus |-> IF k = 0 THEN FALSE ELSE rawData.tasks[k].completed]]

\* if (!cachedMetadata || task.ts > cachedMetadata.lastModified)
NewOrModified(task, index) ==
    task.id \notin DOMAIN index \/ task.ts > index[task.id].lastModified

checkIfUpdateNeeded(taskHistory, cache) ==
    \/ Cardinality(DOMAIN cache.taskMetadataIndex) # Len(taskHistory)
    \/ \E task \in Range(taskHistory) : NewOrModified(task, cache.taskMetadataIndex)

\* IncrementalStore without the copy of the cached store
IncrementalStoreFromEmpty(taskHistory, cache) == EmptyRawData

\* calculateIncrementalMetrics up to the chunk loop: the copy of the cached
\* store without the deleted tasks, and the tasks to process
IncrementalStore(taskHistory, cache) ==
    removeDeletedTaskData(cache.rawData,
                          DOMAIN cache.taskMetadataIndex \ TaskIdsOf(taskHistory))

tasksToProcess(taskHistory, cache) ==
    SelectSeq(taskHistory, LAMBDA task : NewOrModified(task, cache.taskMetadataIndex))

\* The two pushes that open a task's processing
PushTask(rawData, task) ==
    [rawData EXCEPT !.tasks = Append(@, TaskRecordOf(task)),
                    !.tokenUsage = Append(@, UsageOfItem(task))]

\* A task whose transcript cannot be loaded is dropped from the store
WithMessagesOrDropped(rawData, task, loaded, now) ==
    IF loaded # None /\ Len(loaded[1]) > 0
    THEN extractMetricsFromMessages(loaded[1], task.id, rawData, now)
    ELSE removeTaskData(rawData, task.id)

\* if (taskMessages && taskMessages.length > 0) extractMetricsFromMessages(...)
WithMessages(rawData, task, loaded, now) ==
    IF loaded # None /\ Len(loaded[1]) > 0
    THEN extractMetricsFromMessages(loaded[1], task.id, rawData, now)
    ELSE rawData

\* processTaskChunk run until it has to await loadTaskMessages: tasks whose
\* transcript is in the memory cache are processed without yielding.  The
\* result's pending starts with the task that awaits its transcript.  (Chunks
\* hold five tasks; the histories of this model fit in one.)
RECURSIVE processTaskChunk(_, _, _, _)
processTaskChunk(rawData, pending, memCache, now) ==
    IF pending = << >> THEN [rawData |-> rawData, pending |-> pending]
    ELSE LET task == Head(pending)
             opened == PushTask(removeTaskData(rawData, task.id), task)
         IN  IF memCache[task.id] # None
             THEN processTaskChunk(WithMessages(opened, task, memCache[task.id], now),
                                   Tail(pending), memCache, now)
             ELSE [rawData |-> opened, pending |-> pending]

\* const newCache = {...} of the full calculation, made at time at
newCache(taskHistory, rawData, metrics, memCache, at) ==
    [lastCalculationTime |-> at,
     taskMetadataIndex |-> buildTaskMetadataIndex(taskHistory, rawData, memCache),
     rawData |-> rawData,
     processedMetrics |-> metrics]

\* collectRawMetricsData over a history and transcript files that do not
\* change while it runs
RECURSIVE CollectAll(_, _, _, _)
CollectAll(rawData, pending, files, at) ==
    IF pending = << >> THEN rawData
    ELSE LET task == Head(pending)
         IN  CollectAll(WithMessages(PushTask(rawData, task), task, files[task.id], at),
                        Tail(pending), files, at)

--------------------------------------------------------------------------
\* Bounds and input sets

MaxCalls == 2
MaxEvents == 1
MaxUsage == 3
MaxMessages == 5
MaxTasks == 3
MaxDated == 2
MaxWrites == 2
MaxCommits == 1
MaxChecks == 2

TaskIds == {"A", "B"}
Callers == {"c1", "c2"}
BG == "bg"
Procs == Callers \cup {BG}

\* Task A lives on day 0 and task B on day 1; the clock starts on day 1
StartOf(id) == IF id = "A" THEN 1000 ELSE DayMs + 1000
Now0 == DayMs + 10000
TickSteps == {1000, 5000}

Item(id, ts, rich) ==
    [id |-> id, ts |-> ts,
     tokensIn |-> IF rich THEN 100 ELSE 0,
     tokensOut |-> IF rich THEN 50 ELSE 0,
     totalCost |-> IF rich THEN 3 ELSE 0,
     completed |-> IF rich THEN "true" ELSE "undefined",
     completedTs |-> IF rich THEN ts + 500 ELSE UNDEF]

\* The items the controller writes: task A with an earlier ts and plain or
\* with a later ts and rich (the stores hold it with ts StartOf("A") + 2000),
\* task B rich
HistoryItems ==
    {Item("A", StartOf("A"), FALSE), Item("A", StartOf("A") + 4000, TRUE),
     Item("B", StartOf("B"), TRUE)}

ModelOf(id) == IF id = "A" THEN "model-a" ELSE "model-b"
ToolOf(id) == IF id = "A" THEN "read_file" ELSE "write_to_file"

TranscriptsOf(id) ==
    LET t0 == StartOf(id)
    IN  IF id = "A"
        THEN {<<Msg("say", "api_req_started", t0 + 10, ApiText(10, 0, 0, ModelOf(id)), FALSE),
                Msg("say", "api_req_finished", t0 + 20, ApiText(15, 5, 2, ModelOf(id)), FALSE),
                Msg("say", "tool", t0 + 30, ToolText(ToolOf(id), TRUE), FALSE),
                Msg("say", "completion_result", t0 + 40, NoText, FALSE)>>,
              <<Msg("say", "api_req_finished", t0 + 10, BadJsonText, FALSE),
                Msg("say", "tool", t0 + 30, ToolText(ToolOf(id), FALSE), FALSE)>>}
        ELSE {<<Msg("say", "api_req_finished", t0 + 10, ApiText(20, 7, 1, ModelOf(id)), FALSE),
                Msg("say", "text", t0 + 20, SwitchText("plan"), FALSE),
                Msg("say", "tool", t0 + 30, ToolText(ToolOf(id), TRUE), FALSE)>>}

FirstTranscript(id) == CHOOSE tr \in TranscriptsOf(id) : Len(tr) # 2

\* The durable state the extension can start with: a task history, the
\* transcript files of its tasks and, when an earlier session calculated
\* metrics (a full calculation at time PreviousSession), what it persisted
PreviousSession == Now0 - MinuteMs

Stores ==
    {[history |-> <<Item("A", StartOf("A") + 2000, TRUE)>>,
      files |-> [id \in TaskIds |-> IF id = "A" THEN Some(FirstTranscript(id)) ELSE None]],
     [history |-> <<Item("A", StartOf("A") + 2000, TRUE), Item("B", StartOf("B"), TRUE)>>,
      files |-> [id \in TaskIds |-> Some(FirstTranscript(id))]]}

Persisted(st) ==
    LET rawData == CollectAll(EmptyRawData, st.history, st.files, PreviousSession)
        metrics == calculateMetrics(rawData, PreviousSession)
    IN  [metricsData |-> Some(metrics),
         metricsCache |-> Some(newCache(st.history, rawData, metrics,
                                        [id \in TaskIds |-> None], PreviousSession))]

--------------------------------------------------------------------------
\* Line provenance: integrations/git/line-hash

\* The lines the assistant writes and the commits hold.  Each is ten
\* characters long; the second differs from the first in case, spacing and
\* the trailing semicolon only.  Blank stands for a line of white space.
Lines == {"let x = 1;", "LET  X = 1", "y = x + 1;", "        };"}
Blank == "          "

\* trim, collapse the white space, lower case, drop a trailing ; or , and
\* the quotes, then md5; "" for a blank line
createLineHash(line) ==
    CASE line \in {"let x = 1;", "LET  X = 1"} -> "md5(let x = 1)"
      [] line = "y = x + 1;" -> "md5(y = x + 1)"
      [] line = "        };" -> "md5(})"
      [] OTHER -> ""

createLineHashes(lines) == [i \in DOMAIN lines |-> createLineHash(lines[i])]

LineHashes == {createLineHash(line) : line \in Lines}

\* The word characters of the line in lower case, "" when fewer than five
createLineFingerprint(line) ==
    IF line \in {"let x = 1;", "LET  X = 1"} THEN "letx1" ELSE ""

\* line.replace(/\s+/g, "").length and line.length
SqueezedLength(line) ==
    CASE line = "let x = 1;" -> 7
      [] line \in {"LET  X = 1", "y = x + 1;"} -> 6
      [] line = "        };" -> 2
      [] OTHER -> 0
LineLength(line) == 10

\* Ten times the density of a line: exact, every line being ten long
DensityTenths(line) == (10 * SqueezedLength(line)) \div LineLength(line)

RECURSIVE SumDensityTenths(_, _)
SumDensityTenths(lines, i) ==
    IF i > Len(lines) THEN 0
    ELSE DensityTenths(lines[i]) + SumDensityTenths(lines, i + 1)

Min2(a, b) == IF a <= b THEN a ELSE b

\* The pending hashes that are hashes of lines of the content.  A file
\* content is the sequence of its lines; << >> is the empty string.
MatchedHashes(fileContent, lineHashes) ==
    LET validLineHashes == SelectSeq(lineHashes, LAMBDA hash : hash # "")
        lines == SelectSeq(fileContent, LAMBDA line : line # Blank)
        contentLineHashes == {createLineHash(lines[i]) : i \in DOMAIN lines}
        uniqueHashes == Range(validLineHashes)
    IN  uniqueHashes \cap contentLineHashes

countMatchingLines(fileContent, lineHashes) ==
    IF fileContent = << >> \/ lineHashes = << >> THEN 0
    ELSE Cardinality(MatchedHashes(fileContent, lineHashes))

\* The estimate of the forgiving tier; the comparisons of the code on
\* floating-point products are cross-multiplied
countMatchingLinesForgiving(fileContent, lineHashes) ==
    IF fileContent = << >> \/ lineHashes = << >> THEN 0
    ELSE LET validLineHashes == SelectSeq(lineHashes, LAMBDA hash : hash # "")
             lines == SelectSeq(fileContent, LAMBDA line : line # Blank)
             contentFingerprints ==
                 {createLineFingerprint(lines[i]) : i \in DOMAIN lines} \ {""}
             totalFileLines == Len(lines)
             estimatedMatches ==
                 Min2(Len(validLineHashes), (3 * totalFileLines) \div 4)
         IN  IF validLineHashes = << >> THEN 0
             ELSE IF /\ 2 * totalFileLines >= Len(validLineHashes)
                     /\ SumDensityTenths(lines, 1) > 3 * totalFileLines
                  THEN Max2(1, (3 * estimatedMatches) \div 10)
             ELSE IF /\ Cardinality(contentFingerprints) > 5
                     /\ 10 * Cardinality(contentFingerprints)
                            >= 3 * Min2(Len(validLineHashes), totalFileLines)
                  THEN Min2(Len(validLineHashes), (3 * totalFileLines) \div 5)
             ELSE 0

--------------------------------------------------------------------------
\* Line provenance: integrations/git/LineTracker

TWO_WEEKS_MS == 14 * DayMs
SinceDays == 7

NoPendingLines == [filePath \in {} |-> None]

\* getLineTracker: the stored state, or a new default state
getLineTracker(stored, at) ==
    IF stored = None
    THEN [totalLinesWritten |-> 0, totalLinesCommitted |-> 0, commitRatio |-> 0,
          pendingLines |-> NoPendingLines, lastCheckTimestamp |-> at]
    ELSE stored[1]

\* Math.round((committed / written) * 100): the nearest integer, a half
\* going up
RoundedPercent(committed, written) ==
    (200 * committed + written) \div (2 * written)

PlainQuotient(committed, written) == committed \div written

updateCommitRatioAsQuotient(lineTracker_) ==
    [lineTracker_ EXCEPT
        !.commitRatio =
            IF lineTracker_.totalLinesWritten > 0
            THEN PlainQuotient(lineTracker_.totalLinesCommitted,
                               lineTracker_.totalLinesWritten)
            ELSE 0]

updateCommitRatio(lineTracker_) ==
    [lineTracker_ EXCEPT
        !.commitRatio =
            IF lineTracker_.totalLinesWritten > 0
            THEN RoundedPercent(lineTracker_.totalLinesCommitted,
                                lineTracker_.totalLinesWritten)
            ELSE 0]

pruneOldEntries(lineTracker_, at) ==
    [lineTracker_ EXCEPT
        !.pendingLines =
            [filePath \in
                {f \in DOMAIN lineTracker_.pendingLines :
                    ~ \/ lineTracker_.pendingLines[f].hashes = << >>
                      \/ at - lineTracker_.pendingLines[f].timestamp > TWO_WEEKS_MS}
             |-> lineTracker_.pendingLines[filePath]]]

\* recordLinesWritten from the state read to the state saved
Recorded(lineTracker_, filePath, lines, at) ==
    LET lineHashes == createLineHashes(lines)
        existing == filePath \in DOMAIN lineTracker_.pendingLines
        entry == [hashes |-> IF existing
                             THEN lineTracker_.pendingLines[filePath].hashes \o lineHashes
                             ELSE lineHashes,
                  timestamp |-> at]
    IN  updateCommitRatio(
            [lineTracker_ EXCEPT
                !.totalLinesWritten = @ + Len(lines),
                !.pendingLines =
                    [f \in DOMAIN lineTracker_.pendingLines \cup {filePath} |->
                        IF f = filePath THEN entry ELSE lineTracker_.pendingLines[f]]])

--------------------------------------------------------------------------
\* Line provenance: GitCommitChecker, the work on one workspace folder

\* The workspace folders and the files the assistant writes: one under a
\* directory of the first folder, one at the top of the second
workspaceFolders == <<"/w1", "/w2">>
FilePaths == {"/w1/src/a.ts", "/w2/b.ts"}

startsWith(filePath, workspacePath) ==
    \/ filePath = "/w1/src/a.ts" /\ workspacePath = "/w1"
    \/ filePath = "/w2/b.ts" /\ workspacePath = "/w2"

\* path.relative(folder, filePath) of a file of the folder
relativePath(filePath) == IF filePath = "/w1/src/a.ts" THEN "src/a.ts" ELSE "b.ts"
basename(path) == IF path \in {"/w1/src/a.ts", "src/a.ts", "a.ts"} THEN "a.ts" ELSE "b.ts"
WindowsStyle(path) == IF path = "src/a.ts" THEN "src\\a.ts" ELSE path

pathVariations(filePath) ==
    <<relativePath(filePath), WindowsStyle(relativePath(filePath)),
      basename(relativePath(filePath)), basename(filePath)>>

\* git show <commit>:<path>, "" when the command fails; the tree of a
\* commit maps the paths it holds to their contents
Show(tree, pathVar) == IF pathVar \in DOMAIN tree THEN tree[pathVar] ELSE << >>

\* The content under the first path variation that shows one
CommitContent(tree, variations) ==
    LET working == SelectSeq(variations, LAMBDA pathVar : Show(tree, pathVar) # << >>)
    IN  IF working = << >> THEN << >> ELSE Show(tree, working[1])

Occurrences(hashes, hash) == Cardinality({i \in DOMAIN hashes : hashes[i] = hash})

\* The match of one commit that leaves the counted hashes pending
MatchCommitKeepingPending(st, commitContent) ==
    IF commitContent = << >> THEN st
    ELSE LET standard == countMatchingLines(commitContent, st.hashes)
             matchCount == IF standard = 0
                           THEN countMatchingLinesForgiving(commitContent, st.hashes)
                           ELSE standard
         IN  [st EXCEPT !.filesMatchesFound = @ + matchCount,
                        !.matchingCommits = @ + 1]

\* One commit against the pending hashes of one file.  credited is a
\* history field: how often each hash was counted, the hashes found in the
\* content when the count is exact, the hashes removed when it is an estimate.
MatchCommit(st, commitContent) ==
    IF commitContent = << >> THEN st
    ELSE LET standard == countMatchingLines(commitContent, st.hashes)
             matchCount == IF standard = 0
                           THEN countMatchingLinesForgiving(commitContent, st.hashes)
                           ELSE standard
             counted == IF standard > 0
                        THEN [h \in LineHashes |->
                                 IF h \in MatchedHashes(commitContent, st.hashes)
                                 THEN 1 ELSE 0]
                        ELSE [h \in LineHashes |->
                                 Occurrences(SubSeq(st.hashes, 1, matchCount), h)]
         IN  IF matchCount > 0
             THEN [hashes |-> IF matchCount >= Len(st.hashes) THEN << >>
                              ELSE SubSeq(st.hashes, matchCount + 1, Len(st.hashes)),
                   filesMatchesFound |-> st.filesMatchesFound + matchCount,
                   matchingCommits |-> st.matchingCommits + 1,
                   credited |-> [h \in LineHashes |-> st.credited[h] + counted[h]]]
             ELSE [st EXCEPT !.matchingCommits = @ + 1]

RECURSIVE MatchCommits(_, _, _, _)
MatchCommits(st, commits, variations, i) ==
    IF i > Len(commits) THEN st
    ELSE MatchCommits(MatchCommit(st, CommitContent(commits[i].tree, variations)),
                      commits, variations, i + 1)

\* The files of the pending lines the folder loop works on
FilesChecked(lineTracker_, folder) ==
    {filePath \in DOMAIN lineTracker_.pendingLines :
        /\ lineTracker_.pendingLines[filePath].hashes # << >>
        /\ startsWith(filePath, folder)}

FileChecked(lineTracker_, filePath, commits) ==
    MatchCommits([hashes |-> lineTracker_.pendingLines[filePath].hashes,
                  filesMatchesFound |-> 0, matchingCommits |-> 0,
                  credited |-> [h \in LineHashes |-> 0]],
                 commits, pathVariations(filePath), 1)

RECURSIVE SumFound(_, _, _)
SumFound(lineTracker_, files, commits) ==
    IF files = {} THEN 0
    ELSE LET filePath == CHOOSE f \in files : TRUE
         IN  FileChecked(lineTracker_, filePath, commits).filesMatchesFound
                 + SumFound(lineTracker_, files \ {filePath}, commits)

\* The tracker after the loop over the files for one folder's commits
FolderChecked(lineTracker_, folder, commits) ==
    [lineTracker_ EXCEPT
        !.pendingLines =
            [filePath \in DOMAIN lineTracker_.pendingLines |->
                IF filePath \in FilesChecked(lineTracker_, folder)
                THEN [lineTracker_.pendingLines[filePath] EXCEPT
                         !.hashes = FileChecked(lineTracker_, filePath, commits).hashes]
                ELSE lineTracker_.pendingLines[filePath]],
        !.totalLinesCommitted =
            @ + SumFound(lineTracker_, FilesChecked(lineTracker_, folder), commits)]

\* git log since the day of lastCheckTimestamp - 7 days: the commits dated
\* on that day or later, newest first
DayStart(ts) == (ts \div DayMs) * DayMs
sinceDate(lineTracker_) == Max2(lineTracker_.lastCheckTimestamp - SinceDays * DayMs, 0)
LogSince(log, since) == SelectSeq(log, LAMBDA commit : commit.date >= DayStart(since))

\* The end of the pass: prune, ratio, lastCheckTimestamp
Completed(lineTracker_, at) ==
    [updateCommitRatio(pruneOldEntries(lineTracker_, at)) EXCEPT
        !.lastCheckTimestamp = at]

\* A checkGitCommits call and a recordLinesWritten call not made yet; a
\* call that returned keeps its pc only.  failed and visited are history
\* fields: the folders where git access failed and the folders whose
\* commits were matched.
NoCheck ==
    [pc |-> "idle", lineTracker |-> None, folder |-> 1, failed |-> {}, visited |-> {}]
NoWrite == [pc |-> "idle", filePath |-> NoStr, lines |-> << >>, lineTracker |-> None]

NoCounts == [filePath \in FilePaths |-> [h \in LineHashes |-> 0]]

--------------------------------------------------------------------------
\* State

VARIABLES
    taskHistory,          \* globalState "taskHistory" (undefined reads as << >>)
    uiMessages,           \* tasks/<id>/ui_messages.json: None when missing
    metricsData,          \* globalState "metricsData": None or Some(snapshot)
    metricsCache,         \* globalState "metricsCache": None or Some(cache)
    isCalculating,
    lastCalculationTime,
    memoryCache,          \* memoryCache.taskMessages
    proc,                 \* the getMetrics calls and the background check in flight
                          \* (gone, before, read, readNo and overtaken are
                          \* history fields: the ids absent during the call, the
                          \* persisted pair before its save, the task history as
                          \* the call last read it, the rank of that read among
                          \* the calls in flight, and the calls that read a
                          \* different history later and have saved their cache)
    returned,             \* what each caller's last call returned (busy: the
                          \* fast path found the promise of a background check set)
    now,                  \* Date.now()
    purge,                \* history: "no", "purged", or "recomputed" since the purge
    used,                 \* how much of each bound is used
    backgroundUpdatePromise,  \* TRUE while the promise of a background check is set
    input,                \* the argument of a function applied on its own
    output,               \* what the function returned: None before it is applied
    lineTracker,          \* globalState "lineTracker": None or Some(tracker)
    isChecking,           \* GitCommitChecker.isChecking
    checks,               \* the checkGitCommits calls, in the order they were made
    writes,               \* the recordLinesWritten calls, in the order they were made
    repos,                \* the git log of each workspace folder, newest commit first
    ledger,               \* history: per file and hash, how often the hash was
                          \* written and how often it was credited as committed;
                          \* alone while no call has overlapped another call
    reconciliation        \* updateExistingTaskHistory: where it is, the task
                          \* history it holds, the task it loads next, updated

\* The variables of the line tracker and the commit checker
tracking == <<lineTracker, isChecking, checks, writes, repos, ledger>>

vars == <<taskHistory, uiMessages, metricsData, metricsCache, isCalculating,
          lastCalculationTime, memoryCache, proc, returned, now, purge, used,
          backgroundUpdatePromise, input, output, tracking, reconciliation>>

\* The variables of the functions applied on their own
alone == <<input, output>>

durable == <<taskHistory, uiMessages, metricsData, metricsCache>>
persisted == <<metricsData, metricsCache>>

\* Nothing written, no commit made, no check run
TrackerAtRest ==
    /\ lineTracker = None
    /\ isChecking = FALSE
    /\ checks = [k \in 1..MaxChecks |-> NoCheck]
    /\ writes = [w \in 1..MaxWrites |-> NoWrite]
    /\ repos = [folder \in Range(workspaceFolders) |-> << >>]
    /\ ledger = [alone |-> TRUE, written |-> NoCounts, credited |-> NoCounts]

NotReconciling == [pc |-> "idle", taskHistory |-> << >>, i |-> 0, updated |-> FALSE]

Idle ==
    [pc |-> "idle", forceRecalculate |-> FALSE, cachedMetrics |-> None,
     metricsCache |-> None, taskHistory |-> << >>, rawData |-> EmptyRawData,
     pending |-> << >>, metrics |-> None, cache |-> None, path |-> NoStr, gone |-> {},
     before |-> None, read |-> << >>, readNo |-> 0, overtaken |-> {}]

NoReturn ==
    [status |-> "none", value |-> None, path |-> NoStr, force |-> FALSE, gone |-> {},
     busy |-> FALSE]

Init ==
    /\ \E st \in Stores :
          /\ taskHistory = st.history
          /\ uiMessages = st.files
          /\ \/ metricsData = None /\ metricsCache = None
             \/ /\ metricsData = Persisted(st).metricsData
                /\ metricsCache = Persisted(st).metricsCache
    /\ isCalculating = FALSE
    /\ lastCalculationTime = 0
    /\ memoryCache = [id \in TaskIds |-> None]
    /\ proc = [p \in Procs |-> Idle]
    /\ returned = [c \in Callers |-> NoReturn]
    /\ now = Now0
    /\ purge = "no"
    /\ used = [calls |-> 0, events |-> 0]
    /\ backgroundUpdatePromise = FALSE
    /\ reconciliation = NotReconciling
    /\ input = None
    /\ output = None
    /\ TrackerAtRest

--------------------------------------------------------------------------
\* MetricsService.getMetrics, one action per stretch between two awaits

Return(c, status, value, path) ==
    returned' = [returned EXCEPT ![c] =
                    [status |-> status, value |-> value, path |-> path,
                     force |-> proc[c].forceRecalculate, gone |-> proc[c].gone,
                     busy |-> path = "fast" /\ backgroundUpdatePromise]]

\* A call takes the first free caller slot
CallerRank(c) == IF c = "c1" THEN 1 ELSE 2

\* The call itself: the isCalculating test and the read of "metricsData".
\* gone records the task ids that are not in the history during the call.
getMetrics(c, forceRecalculate) ==
    /\ proc[c].pc = "idle"
    /\ \A b \in Callers : proc[b].pc = "idle" => CallerRank(c) <= CallerRank(b)
    /\ used.calls < MaxCalls
    /\ proc' = [proc EXCEPT ![c] =
                   [Idle EXCEPT !.pc = IF isCalculating THEN "inflight" ELSE "readCache",
                                !.forceRecalculate = forceRecalculate,
                                !.cachedMetrics = metricsData,
                                !.gone = TaskIds \ TaskIdsOf(taskHistory)]]
    /\ returned' = [returned EXCEPT ![c] = NoReturn]
    /\ used' = [used EXCEPT !.calls = @ + 1]
    /\ UNCHANGED <<durable, isCalculating, lastCalculationTime, memoryCache, now, purge>>
    /\ UNCHANGED <<backgroundUpdatePromise, input, output, tracking, reconciliation>>

\* ReturnWhileCalculating as it would be inside the try block, whose finally
\* clears the flag
ReturnWhileCalculatingInTry(c) ==
    /\ proc[c].pc = "inflight"
    /\ Return(c, "value",
              IF proc[c].cachedMetrics # None THEN proc[c].cachedMetrics
              ELSE Some(getEmptyMetrics(now)), "inflight")
    /\ proc' = [proc EXCEPT ![c] = Idle]
    /\ isCalculating' = FALSE
    /\ UNCHANGED <<durable, lastCalculationTime, memoryCache, now, purge, used>>
    /\ UNCHANGED <<backgroundUpdatePromise, input, output, tracking, reconciliation>>

\* return cachedMetrics || this.getEmptyMetrics() of a call that saw the flag
ReturnWhileCalculating(c) ==
    /\ proc[c].pc = "inflight"
    /\ Return(c, "value",
              IF proc[c].cachedMetrics # None THEN proc[c].cachedMetrics
              ELSE Some(getEmptyMetrics(now)), "inflight")
    /\ proc' = [proc EXCEPT ![c] = Idle]
    /\ UNCHANGED <<durable, isCalculating, lastCalculationTime, memoryCache, now, purge, used>>
    /\ UNCHANGED <<backgroundUpdatePromise, input, output, tracking, reconciliation>>

\* The read of "metricsCache"
ReadMetricsCache(c) ==
    /\ proc[c].pc = "readCache"
    /\ proc' = [proc EXCEPT ![c].metricsCache = metricsCache, ![c].pc = "decide"]
    /\ UNCHANGED <<durable, isCalculating, lastCalculationTime, memoryCache, returned,
                   now, purge, used>>
    /\ UNCHANGED <<backgroundUpdatePromise, input, output, tracking, reconciliation>>

\* FastPath with the freshness window taken in seconds
FastPathWindowInSeconds(cachedMetrics, forceRecalculate, timeSinceLastCalculation) ==
    /\ cachedMetrics # None
    /\ ~forceRecalculate
    /\ timeSinceLastCalculation < FreshnessWindowMs \div 1000

\* if (cachedMetrics && !forceRecalculate && timeSinceLastCalculation < 5000)
FastPath(cachedMetrics, forceRecalculate, timeSinceLastCalculation) ==
    /\ cachedMetrics # None
    /\ ~forceRecalculate
    /\ timeSinceLastCalculation < FreshnessWindowMs

\* checkForUpdatesInBackground without the test of backgroundUpdatePromise
checkForUpdatesInBackgroundUnguarded(cache) ==
    IF cache # None
    THEN [Idle EXCEPT !.pc = "bgReadHist", !.metricsCache = cache, !.path = "background"]
    ELSE proc[BG]

\* checkForUpdatesInBackground up to its first await: the background
\* process after the call (backgroundUpdatePromise is set while it is not idle)
checkForUpdatesInBackground(cache) ==
    IF ~backgroundUpdatePromise /\ cache # None
    THEN [Idle EXCEPT !.pc = "bgReadHist", !.metricsCache = cache, !.path = "background"]
    ELSE proc[BG]

\* The fast path, or the flag is set and the task history is asked for
CheckFreshness(c) ==
    /\ proc[c].pc = "decide"
    /\ IF FastPath(proc[c].cachedMetrics, proc[c].forceRecalculate,
                   now - lastCalculationTime)
       THEN /\ proc' = [proc EXCEPT ![c] = Idle,
                                    ![BG] = checkForUpdatesInBackground(proc[c].metricsCache)]
            /\ Return(c, "value", proc[c].cachedMetrics, "fast")
            /\ UNCHANGED isCalculating
       ELSE /\ isCalculating' = TRUE
            /\ proc' = [proc EXCEPT ![c].pc = "readHist"]
            /\ UNCHANGED returned
    /\ UNCHANGED <<durable, lastCalculationTime, memoryCache, now, purge, used>>
    /\ backgroundUpdatePromise' =
          IF FastPath(proc[c].cachedMetrics, proc[c].forceRecalculate,
                      now - lastCalculationTime)
          THEN backgroundUpdatePromise \/ proc[c].metricsCache # None
          ELSE backgroundUpdatePromise
    /\ UNCHANGED <<alone, tracking, reconciliation>>

\* The cache a finished incremental recompute hands to saveMetricsAndCache:
\* getMetrics passes the cache it read, the background check builds one
CacheToSave(p, taskHistory_, cache, metrics, memCache) ==
    IF p = BG
    THEN Some([lastCalculationTime |-> now,
               taskMetadataIndex |->
                   buildTaskMetadataIndex(taskHistory_, cache[1].rawData, memCache),
               rawData |-> cache[1].rawData,
               processedMetrics |-> metrics])
    ELSE cache

\* calculateIncrementalMetrics from the store rawData and the tasks pending,
\* up to the next await of a transcript or to the call of saveMetricsAndCache
Incremental(p, taskHistory_, rawData, pending, memCache) ==
    LET run == processTaskChunk(rawData, pending, memCache, now)
        done == run.pending = << >>
        metrics == calculateMetrics(run.rawData, now)
    IN  [proc[p] EXCEPT
            !.taskHistory = taskHistory_,
            !.rawData = run.rawData,
            !.pending = run.pending,
            !.pc = IF done THEN "save1" ELSE "incrLoad",
            !.metrics = IF done THEN Some(metrics) ELSE None,
            !.cache = IF done
                      THEN CacheToSave(p, taskHistory_, proc[p].metricsCache, metrics, memCache)
                      ELSE None]

\* Finally as a reset at the end of the try block instead of a finally block
FinallyOnReturnOnly(exit) == IF exit = "return" THEN FALSE ELSE isCalculating

\* finally { this.isCalculating = false }: the flag after getMetrics leaves
\* its try block by "return", by the "empty" history return or by a "throw"
Finally(exit) == FALSE

\* History: the record of a call that has just read the task history, ranked
\* after every read of the calls in flight
HistoryRead(record) ==
    [record EXCEPT !.read = taskHistory,
                   !.readNo = 1 + SetMax({proc[p].readNo : p \in Procs}),
                   !.overtaken = {}]

\* The task history arrives: empty history, incremental update or full
\* calculation
ReadTaskHistory(c) ==
    /\ proc[c].pc = "readHist"
    /\ IF taskHistory = << >>
       THEN /\ isCalculating' = Finally("empty")
            /\ Return(c, "value", Some(getEmptyMetrics(now)), "empty")
            /\ proc' = [proc EXCEPT ![c] = Idle]
            /\ purge' = IF purge = "purged" THEN "recomputed" ELSE purge
       ELSE /\ IF /\ proc[c].cachedMetrics # None
                  /\ proc[c].metricsCache # None
                  /\ ~proc[c].forceRecalculate
               THEN proc' = [proc EXCEPT ![c] =
                       HistoryRead(
                       [Incremental(c, taskHistory,
                                    IncrementalStore(taskHistory, proc[c].metricsCache[1]),
                                    tasksToProcess(taskHistory, proc[c].metricsCache[1]),
                                    memoryCache)
                        EXCEPT !.path = "incremental"])]
               ELSE proc' = [proc EXCEPT ![c] =
                       HistoryRead([proc[c] EXCEPT !.taskHistory = taskHistory,
                                                   !.path = "full",
                                                   !.pc = "fullStart"])]
            /\ UNCHANGED <<isCalculating, returned, purge>>
    /\ UNCHANGED <<durable, lastCalculationTime, memoryCache, now, used>>
    /\ UNCHANGED <<backgroundUpdatePromise, input, output, tracking, reconciliation>>

\* loadTaskMessages returns for the task that awaited it (processTaskChunk):
\* the transcript enters the memory cache and the chunk goes on
LoadTaskMessages(p) ==
    /\ proc[p].pc = "incrLoad"
    /\ LET task == Head(proc[p].pending)
           loaded == uiMessages[task.id]
           memCache == IF loaded # None THEN [memoryCache EXCEPT ![task.id] = loaded]
                       ELSE memoryCache
       IN  /\ memoryCache' = memCache
           /\ proc' = [proc EXCEPT ![p] =
                          Incremental(p, proc[p].taskHistory,
                                      WithMessages(proc[p].rawData, task, loaded, now),
                                      Tail(proc[p].pending), memCache)]
    /\ UNCHANGED <<durable, isCalculating, lastCalculationTime, returned, now, purge, used>>
    /\ UNCHANGED <<backgroundUpdatePromise, input, output, tracking, reconciliation>>

\* The full calculation after its last transcript: calculateMetrics and newCache
FullDone(c, rawData) ==
    LET metrics == calculateMetrics(rawData, now)
    IN  [proc[c] EXCEPT !.rawData = rawData, !.pending = << >>, !.pc = "save1",
                        !.metrics = Some(metrics),
                        !.cache = Some(newCache(proc[c].taskHistory, rawData, metrics, memoryCache, now))]

\* collectRawMetricsData as it would be if it started from the cached store
collectRawMetricsDataOnCachedStore(c) ==
    /\ proc[c].pc = "fullStart"
    /\ LET store == IF proc[c].metricsCache # None THEN proc[c].metricsCache[1].rawData
                    ELSE EmptyRawData
       IN  proc' = [proc EXCEPT ![c] =
                       HistoryRead(
                       IF taskHistory = << >> THEN FullDone(c, store)
                       ELSE [proc[c] EXCEPT !.rawData = store, !.pending = taskHistory,
                                            !.pc = "fullLoad"])]
    /\ UNCHANGED <<durable, isCalculating, lastCalculationTime, memoryCache, returned,
                   now, purge, used>>
    /\ UNCHANGED <<backgroundUpdatePromise, input, output, tracking, reconciliation>>

\* collectRawMetricsData reads the task history again and starts from an
\* empty store
collectRawMetricsData(c) ==
    /\ proc[c].pc = "fullStart"
    /\ proc' = [proc EXCEPT ![c] =
                   HistoryRead(
                   IF taskHistory = << >> THEN FullDone(c, EmptyRawData)
                   ELSE [proc[c] EXCEPT !.rawData = EmptyRawData, !.pending = taskHistory,
                                        !.pc = "fullLoad"])]
    /\ UNCHANGED <<durable, isCalculating, lastCalculationTime, memoryCache, returned,
                   now, purge, used>>
    /\ UNCHANGED <<backgroundUpdatePromise, input, output, tracking, reconciliation>>

\* One task of collectRawMetricsData: its records, its transcript, its facts
CollectTask(c) ==
    /\ proc[c].pc = "fullLoad"
    /\ LET task == Head(proc[c].pending)
           rawData == WithMessages(PushTask(proc[c].rawData, task), task,
                                   uiMessages[task.id], now)
       IN  proc' = [proc EXCEPT ![c] =
                       IF Tail(proc[c].pending) = << >> THEN FullDone(c, rawData)
                       ELSE [proc[c] EXCEPT !.rawData = rawData,
                                            !.pending = Tail(proc[c].pending)]]
    /\ UNCHANGED <<durable, isCalculating, lastCalculationTime, memoryCache, returned,
                   now, purge, used>>
    /\ UNCHANGED <<backgroundUpdatePromise, input, output, tracking, reconciliation>>

\* saveMetricsAndCache: the two writes and the time stamp
SaveMetrics(p) ==
    /\ proc[p].pc = "save1"
    /\ metricsData' = proc[p].metrics
    /\ proc' = [proc EXCEPT ![p].pc = "save2", ![p].before = Some(persisted)]
    /\ UNCHANGED <<taskHistory, uiMessages, metricsCache, isCalculating,
                   lastCalculationTime, memoryCache, returned, now, purge, used>>
    /\ UNCHANGED <<backgroundUpdatePromise, input, output, tracking, reconciliation>>

SaveCache(p) ==
    /\ proc[p].pc = "save2"
    /\ metricsCache' = proc[p].cache
    /\ proc' = [q \in Procs |->
                   IF q = p THEN [proc[p] EXCEPT !.pc = "saved"]
                   ELSE IF /\ 0 < proc[q].readNo /\ proc[q].readNo < proc[p].readNo
                           /\ proc[q].read # proc[p].read
                        THEN [proc[q] EXCEPT !.overtaken = @ \cup {p}]
                        ELSE proc[q]]
    /\ UNCHANGED <<taskHistory, uiMessages, metricsData, isCalculating,
                   lastCalculationTime, memoryCache, returned, now, purge, used>>
    /\ UNCHANGED <<backgroundUpdatePromise, input, output, tracking, reconciliation>>

\* this.lastCalculationTime = Date.now(); then getMetrics returns through
\* its finally block, and the background check clears its promise
Saved(p) ==
    /\ proc[p].pc = "saved"
    /\ lastCalculationTime' = now
    /\ proc' = [proc EXCEPT ![p] = Idle]
    /\ IF p \in Callers
       THEN /\ isCalculating' = Finally("return")
            /\ Return(p, "value", proc[p].metrics, proc[p].path)
       ELSE UNCHANGED <<isCalculating, returned>>
    /\ UNCHANGED <<durable, memoryCache, now, purge, used>>
    /\ backgroundUpdatePromise' = IF p = BG THEN FALSE ELSE backgroundUpdatePromise
    /\ UNCHANGED <<alone, tracking, reconciliation>>

\* A storage operation rejects.  Inside getMetrics' try block the finally
\* block runs and the error reaches the caller; the background check logs it.
InTry(pc) == pc \in {"readHist", "fullStart", "save1", "save2"}

StorageFails(p) ==
    /\ used.events < MaxEvents
    /\ \/ p \in Callers /\ (InTry(proc[p].pc) \/ proc[p].pc \in {"inflight", "readCache", "decide"})
       \/ p = BG /\ proc[p].pc \in {"bgReadHist", "save1", "save2"}
    /\ proc' = [proc EXCEPT ![p] = Idle]
    /\ IF p \in Callers
       THEN /\ Return(p, "error", None, proc[p].path)
            /\ isCalculating' = IF InTry(proc[p].pc) THEN Finally("throw")
                                ELSE isCalculating
       ELSE UNCHANGED <<isCalculating, returned>>
    /\ used' = [used EXCEPT !.events = @ + 1]
    /\ UNCHANGED <<durable, lastCalculationTime, memoryCache, now, purge>>
    /\ backgroundUpdatePromise' = IF p = BG THEN FALSE ELSE backgroundUpdatePromise
    /\ UNCHANGED <<alone, tracking, reconciliation>>

\* The background staleness check has the task history
BackgroundCheck ==
    /\ proc[BG].pc = "bgReadHist"
    /\ proc' = [proc EXCEPT ![BG] =
                   IF taskHistory = << >> THEN Idle
                   ELSE IF checkIfUpdateNeeded(taskHistory, proc[BG].metricsCache[1])
                        THEN HistoryRead(
                             Incremental(BG, taskHistory,
                                 IncrementalStore(taskHistory, proc[BG].metricsCache[1]),
                                 tasksToProcess(taskHistory, proc[BG].metricsCache[1]),
                                 memoryCache))
                        ELSE Idle]
    /\ UNCHANGED <<durable, isCalculating, lastCalculationTime, memoryCache, returned,
                   now, purge, used>>
    /\ backgroundUpdatePromise' = (proc'[BG].pc # "idle")
    /\ UNCHANGED <<alone, tracking, reconciliation>>

--------------------------------------------------------------------------
\* The controller's operations on the task history, the transcript files,
\* the clock and the host process

\* Controller.updateTaskHistory
updateTaskHistory(item) ==
    /\ used.events < MaxEvents
    /\ item \notin Range(taskHistory)
    /\ taskHistory' =
          IF item.id \in TaskIdsOf(taskHistory)
          THEN [i \in 1..Len(taskHistory) |->
                   IF taskHistory[i].id = item.id THEN item ELSE taskHistory[i]]
          ELSE Append(taskHistory, item)
    /\ proc' = [p \in Procs |-> [proc[p] EXCEPT !.gone = @ \ {item.id}]]
    /\ purge' = "no"
    /\ used' = [used EXCEPT !.events = @ + 1]
    /\ UNCHANGED <<uiMessages, persisted, isCalculating, lastCalculationTime, memoryCache,
                   returned, now>>
    /\ UNCHANGED <<backgroundUpdatePromise, input, output, tracking, reconciliation>>

\* Controller.deleteTaskFromState
deleteTaskFromState(id) ==
    /\ used.events < MaxEvents
    /\ id \in TaskIdsOf(taskHistory)
    /\ taskHistory' = SelectSeq(taskHistory, LAMBDA task : task.id # id)
    /\ used' = [used EXCEPT !.events = @ + 1]
    /\ UNCHANGED <<uiMessages, persisted, isCalculating, lastCalculationTime, memoryCache,
                   proc, returned, now, purge>>
    /\ UNCHANGED <<backgroundUpdatePromise, input, output, tracking, reconciliation>>

\* Controller.deleteAllTaskHistory: the history and the tasks directory
deleteAllTaskHistory ==
    /\ used.events < MaxEvents
    /\ taskHistory # << >>
    /\ taskHistory' = << >>
    /\ uiMessages' = [id \in TaskIds |-> None]
    /\ purge' = "purged"
    /\ used' = [used EXCEPT !.events = @ + 1]
    /\ UNCHANGED <<persisted, isCalculating, lastCalculationTime, memoryCache, proc,
                   returned, now>>
    /\ UNCHANGED <<backgroundUpdatePromise, input, output, tracking, reconciliation>>

\* A task writes its transcript file
saveClineMessages(id, transcript) ==
    /\ used.events < MaxEvents
    /\ id \in TaskIdsOf(taskHistory)
    /\ uiMessages[id] # Some(transcript)
    /\ uiMessages' = [uiMessages EXCEPT ![id] = Some(transcript)]
    /\ used' = [used EXCEPT !.events = @ + 1]
    /\ UNCHANGED <<taskHistory, persisted, isCalculating, lastCalculationTime, memoryCache,
                   proc, returned, now, purge>>
    /\ UNCHANGED <<backgroundUpdatePromise, input, output, tracking, reconciliation>>

Tick(d) ==
    /\ used.events < MaxEvents
    /\ now' = now + d
    /\ used' = [used EXCEPT !.events = @ + 1]
    /\ UNCHANGED <<durable, isCalculating, lastCalculationTime, memoryCache, proc,
                   returned, purge>>
    /\ UNCHANGED <<backgroundUpdatePromise, input, output, tracking, reconciliation>>

\* The host process stops and the extension starts again: the durable state
\* stays, the service is constructed anew
Restart ==
    /\ used.events < MaxEvents
    /\ isCalculating' = FALSE
    /\ lastCalculationTime' = 0
    /\ memoryCache' = [id \in TaskIds |-> None]
    /\ proc' = [p \in Procs |-> Idle]
    /\ returned' = [c \in Callers |-> NoReturn]
    /\ used' = [used EXCEPT !.events = @ + 1]
    /\ UNCHANGED <<durable, now, purge>>
    /\ backgroundUpdatePromise' = FALSE
    /\ UNCHANGED <<alone, tracking, reconciliation>>

Next ==
    \/ \E c \in Callers, f \in BOOLEAN : getMetrics(c, f)
    \/ \E c \in Callers : ReturnWhileCalculating(c)
    \/ \E c \in Callers : ReadMetricsCache(c)
    \/ \E c \in Callers : CheckFreshness(c)
    \/ \E c \in Callers : ReadTaskHistory(c)
    \/ \E c \in Callers : collectRawMetricsData(c)
    \/ \E c \in Callers : CollectTask(c)
    \/ BackgroundCheck
    \/ \E p \in Procs : LoadTaskMessages(p)
    \/ \E p \in Procs : SaveMetrics(p)
    \/ \E p \in Procs : SaveCache(p)
    \/ \E p \in Procs : Saved(p)
    \/ \E p \in Procs : StorageFails(p)
    \/ \E item \in HistoryItems : updateTaskHistory(item)
    \/ \E id \in TaskIds : deleteTaskFromState(id)
    \/ deleteAllTaskHistory
    \/ \E id \in TaskIds : \E tr \in TranscriptsOf(id) : saveClineMessages(id, tr)
    \/ \E d \in TickSteps : Tick(d)
    \/ Restart

Spec == Init /\ [][Next]_vars

\* The service later in a session: a full calculation over the store st has
\* just been saved and returned, no call is in flight
InitAfterCalculation ==
    /\ \E st \in Stores :
          LET rawData == CollectAll(EmptyRawData, st.history, st.files, Now0)
              metrics == calculateMetrics(rawData, Now0)
          IN  /\ taskHistory = st.history
              /\ uiMessages = st.files
              /\ metricsData = Some(metrics)
              /\ metricsCache = Some(newCache(st.history, rawData, metrics,
                                              [id \in TaskIds |-> None], Now0))
    /\ isCalculating = FALSE
    /\ lastCalculationTime = Now0
    /\ memoryCache = [id \in TaskIds |-> None]
    /\ proc = [p \in Procs |-> Idle]
    /\ returned = [c \in Callers |-> NoReturn]
    /\ now = Now0
    /\ purge = "no"
    /\ used = [calls |-> 0, events |-> 0]
    /\ backgroundUpdatePromise = FALSE
    /\ reconciliation = NotReconciling
    /\ input = None
    /\ output = None
    /\ TrackerAtRest

SpecAfterCalculation == InitAfterCalculation /\ [][Next]_vars

\* The extension starts with what an earlier session persisted for task B;
\* task A has been added to the history since
InitTaskAdded ==
    LET st == [history |-> <<Item("B", StartOf("B"), TRUE)>>,
               files |-> [id \in TaskIds |-> Some(FirstTranscript(id))]]
    IN  /\ taskHistory = Append(st.history, Item("A", StartOf("A") + 2000, TRUE))
        /\ uiMessages = st.files
        /\ metricsData = Persisted(st).metricsData
        /\ metricsCache = Persisted(st).metricsCache
        /\ isCalculating = FALSE
        /\ lastCalculationTime = 0
        /\ memoryCache = [id \in TaskIds |-> None]
        /\ proc = [p \in Procs |-> Idle]
        /\ returned = [c \in Callers |-> NoReturn]
        /\ now = Now0
        /\ purge = "no"
        /\ used = [calls |-> 0, events |-> 0]
        /\ backgroundUpdatePromise = FALSE
        /\ reconciliation = NotReconciling
        /\ input = None
        /\ output = None
        /\ TrackerAtRest

SpecTaskAdded == InitTaskAdded /\ [][Next]_vars

\* What the background check persists after an incremental recompute over
\* taskHistory_ from the cache it was given: the new snapshot, the index
\* rebuilt, the raw store of the cache it was given
BackgroundUpdated(taskHistory_, cache, memCache, at) ==
    LET run == processTaskChunk(IncrementalStore(taskHistory_, cache),
                                tasksToProcess(taskHistory_, cache), memCache, at)
        metrics == calculateMetrics(run.rawData, at)
    IN  [metricsData |-> Some(metrics),
         metricsCache |->
             Some([lastCalculationTime |-> at,
                   taskMetadataIndex |->
                       buildTaskMetadataIndex(taskHistory_, cache.rawData, memCache),
                   rawData |-> cache.rawData,
                   processedMetrics |-> metrics])]

\* The extension starts with what an earlier session persisted last: it had
\* calculated over task A, task B was added, and its background check found
\* the change and saved
InitAfterBackgroundUpdate ==
    /\ LET first == <<Item("A", StartOf("A") + 2000, TRUE)>>
           files == [id \in TaskIds |-> Some(FirstTranscript(id))]
           memCache == [id \in TaskIds |-> IF id = "B" THEN files[id] ELSE None]
       IN  /\ taskHistory = Append(first, Item("B", StartOf("B"), TRUE))
           /\ uiMessages = files
           /\ \E cache \in {Persisted([history |-> first, files |-> files]).metricsCache[1]} :
                 \E st \in {BackgroundUpdated(taskHistory, cache, memCache, PreviousSession)} :
                     /\ metricsData = st.metricsData
                     /\ metricsCache = st.metricsCache
    /\ isCalculating = FALSE
    /\ lastCalculationTime = 0
    /\ memoryCache = [id \in TaskIds |-> None]
    /\ proc = [p \in Procs |-> Idle]
    /\ returned = [c \in Callers |-> NoReturn]
    /\ now = Now0
    /\ purge = "no"
    /\ used = [calls |-> 0, events |-> 0]
    /\ backgroundUpdatePromise = FALSE
    /\ reconciliation = NotReconciling
    /\ input = None
    /\ output = None
    /\ TrackerAtRest

SpecAfterBackgroundUpdate == InitAfterBackgroundUpdate /\ [][Next]_vars

--------------------------------------------------------------------------
\* The calculator's and the extractor's functions on their own: the service
\* is at rest, input holds the argument and output the value returned

service ==
    <<taskHistory, uiMessages, metricsData, metricsCache, isCalculating,
      lastCalculationTime, memoryCache, proc, returned, now, purge, used,
      backgroundUpdatePromise, reconciliation>>

AtRest ==
    /\ taskHistory = << >>
    /\ uiMessages = [id \in TaskIds |-> None]
    /\ metricsData = None
    /\ metricsCache = None
    /\ isCalculating = FALSE
    /\ lastCalculationTime = 0
    /\ memoryCache = [id \in TaskIds |-> None]
    /\ proc = [p \in Procs |-> Idle]
    /\ returned = [c \in Callers |-> NoReturn]
    /\ purge = "no"
    /\ used = [calls |-> 0, events |-> 0]
    /\ backgroundUpdatePromise = FALSE
    /\ reconciliation = NotReconciling

SeqsUpTo(S, n) == UNION {[1..k -> S] : k \in 0..n}

\* Entries of rawData.tokenUsage: two tasks, a named and an unnamed model,
\* two instants of one minute and one of the next
UsageValues == {<<10, 5, 0>>, <<15, 3, 0>>, <<10, 5, 2>>, <<0, 0, 0>>}
UsageStamps == {<<3000, "model-a">>, <<47000, "model-a">>, <<63000, "model-a">>,
                <<47000, "unknown">>}
Usage(id, stamp, v) ==
    [taskId |-> id, tokensIn |-> v[1], tokensOut |-> v[2], model |-> stamp[2],
     timestamp |-> stamp[1], cost |-> v[3]]
UsageEntries ==
    {Usage("A", stamp, v) : stamp \in UsageStamps, v \in UsageValues}
        \cup {Usage("B", <<3000, "model-a">>, <<10, 5, 0>>)}

InitDeduplicate ==
    /\ AtRest /\ TrackerAtRest /\ now = Now0
    /\ input \in {Some(l) : l \in SeqsUpTo(UsageEntries, MaxUsage)}
    /\ output = None

ApplyDeduplicate ==
    /\ output = None
    /\ output' = Some(deduplicateTokenUsage(input[1]))
    /\ UNCHANGED <<service, tracking, input>>

NextDeduplicate == ApplyDeduplicate

SpecDeduplicate == InitDeduplicate /\ [][NextDeduplicate]_vars

\* Transcripts of task A: up to MaxMessages events, one second apart, each a
\* plain text, a completion result said or asked, a completion tool, a user
\* feedback or a checkpoint
EventKinds == {"text", "result", "asked", "tool", "feedback", "checkpoint"}

Event(kind, ts) ==
    CASE kind = "text" -> Msg("say", "text", ts, BadJsonText, FALSE)
      [] kind = "result" -> Msg("say", "completion_result", ts, NoText, FALSE)
      [] kind = "asked" -> Msg("ask", "completion_result", ts, NoText, FALSE)
      [] kind = "tool" -> Msg("say", "tool", ts, ToolText("attempt_completion", TRUE), FALSE)
      [] kind = "feedback" -> Msg("say", "user_feedback", ts, BadJsonText, FALSE)
      [] kind = "checkpoint" -> Msg("say", "checkpoint_created", ts, NoText, TRUE)

EventTs(i) == StartOf("A") + 1000 * i

Transcripts ==
    {[i \in 1..Len(kinds) |-> Event(kinds[i], EventTs(i))] :
        kinds \in SeqsUpTo(EventKinds, MaxMessages) \ {<< >>}}

InitExtract ==
    /\ AtRest /\ TrackerAtRest /\ now = Now0
    /\ input \in {Some([task |-> Item("A", StartOf("A"), FALSE), messages |-> tr]) :
                     tr \in Transcripts}
    /\ output = None

\* processTaskChunk on one task: the record is pushed, then the transcript
\* is extracted into it
ApplyExtract ==
    /\ output = None
    /\ output' = Some(extractMetricsFromMessages(
                          input[1].messages, input[1].task.id,
                          PushTask(EmptyRawData, input[1].task), now))
    /\ UNCHANGED <<service, tracking, input>>

NextExtract == ApplyExtract

SpecExtract == InitExtract /\ [][NextExtract]_vars

\* Records of rawData.tasks: with or without a start time, completed or not,
\* with a completedTs before or after the start or none, with or without an
\* endTime (here before the start)
TaskRecords ==
    {[id |-> "A", startTime |-> s, completed |-> c, completedTs |-> cts,
      endTime |-> e, model |-> NoStr, mode |-> "act"] :
        s \in {0, 5000}, c \in BOOLEAN, cts \in {UNDEF, 2000, 9000}, e \in {UNDEF, 4500}}

InitTaskMetrics ==
    /\ AtRest /\ TrackerAtRest /\ now = Now0
    /\ input \in {Some([EmptyRawData EXCEPT !.tasks = l]) :
                     l \in SeqsUpTo(TaskRecords, MaxTasks)}
    /\ output = None

ApplyTaskMetrics ==
    /\ output = None
    /\ output' = Some(calculateTaskMetrics(input[1], now))
    /\ UNCHANGED <<service, tracking, input>>

NextTaskMetrics == ApplyTaskMetrics

SpecTaskMetrics == InitTaskMetrics /\ [][NextTaskMetrics]_vars

\* Raw stores for the date ranges: the request is made on day 20, tasks
\* were started and tokens used 15 days, 5 days and 1 day before
DataDays == {5, 15, 19}

DatedStores ==
    {[EmptyRawData EXCEPT
         !.tasks = [i \in 1..Len(days) |->
                       [id |-> "A", startTime |-> days[i] * DayMs + 1000, completed |-> FALSE,
                        completedTs |-> UNDEF, endTime |-> UNDEF, model |-> NoStr,
                        mode |-> "act"]],
         !.tokenUsage = [i \in 1..Len(used_) |->
                            Usage("A", <<used_[i][1] * DayMs + 2000, "model-a">>, used_[i][2])]] :
        days \in SeqsUpTo(DataDays, MaxDated),
        used_ \in SeqsUpTo(DataDays \X {<<10, 5, 2>>, <<15, 3, 0>>}, MaxDated)}

InitDateRange ==
    /\ AtRest /\ TrackerAtRest
    /\ now \in {20 * DayMs, 20 * DayMs + 10000}
    /\ input \in {Some([rawData |-> r, range |-> rg]) :
                     r \in DatedStores, rg \in {"7d", "30d", "all"}}
    /\ output = None

\* const allMetrics = await this.getMetrics(forceRecalculate)
AwaitMetrics ==
    /\ output = None
    /\ output' = Some([allMetrics |-> calculateMetrics(input[1].rawData, now),
                       result |-> None])
    /\ UNCHANGED <<service, tracking, input>>

\* Time passes while getMetrics is awaited
Elapse ==
    /\ output # None /\ output[1].result = None
    /\ now < 23 * DayMs
    /\ now' = now + 3 * DayMs
    /\ UNCHANGED <<taskHistory, uiMessages, metricsData, metricsCache, isCalculating,
                   lastCalculationTime, memoryCache, proc, returned, purge, used,
                   backgroundUpdatePromise, input, output, tracking, reconciliation>>

ApplyDateRange ==
    /\ output # None /\ output[1].result = None
    /\ output' = Some([output[1] EXCEPT
                          !.result = Some(getMetricsForDateRange(
                                              input[1].range, output[1].allMetrics, now))])
    /\ UNCHANGED <<service, tracking, input>>

NextDateRange == AwaitMetrics \/ Elapse \/ ApplyDateRange

SpecDateRange == InitDateRange /\ [][NextDateRange]_vars

--------------------------------------------------------------------------
\* The line tracker and the commit checker, one action per stretch between
\* two awaits; the metrics service is at rest

\* What the assistant writes in one edit: two lines, one line or nothing to
\* the file of the first folder, one line to the file of the second
Edits ==
    {[filePath |-> "/w1/src/a.ts", lines |-> lines] :
        lines \in {<<"let x = 1;", "y = x + 1;">>, <<"LET  X = 1">>, << >>}}
        \cup {[filePath |-> "/w2/b.ts", lines |-> <<"y = x + 1;">>]}

\* What a commit holds of the file of the first folder
Contents == {<<"y = x + 1;">>, <<"let x = 1;", "y = x + 1;">>, <<"        };">>}

\* The trees a commit of the folder can have: the file where it is written,
\* or, in the first folder, moved to the top of the repository
Trees(folder) ==
    IF folder = "/w1"
    THEN {[path \in {"src/a.ts"} |-> content] : content \in Contents}
             \cup {[path \in {"a.ts"} |-> <<"y = x + 1;">>]}
    ELSE {[path \in {"b.ts"} |-> <<"y = x + 1;">>]}

\* A recordLinesWritten or a checkGitCommits call is between two awaits
InFlight ==
    \/ \E w \in 1..MaxWrites : writes[w].pc \notin {"idle", "done"}
    \/ \E k \in 1..MaxChecks : checks[k].pc \notin {"idle", "done"}

InitLineTracker ==
    /\ AtRest
    /\ input = None
    /\ output = None
    /\ now = DayMs
    /\ TrackerAtRest

\* recordLinesWritten up to the await of getLineTracker
recordLinesWritten(w, filePath, lines) ==
    /\ writes[w].pc = "idle"
    /\ \A v \in 1..MaxWrites : v < w => writes[v].pc # "idle"
    /\ writes' = [writes EXCEPT ![w] =
                     IF lines = << >> THEN [NoWrite EXCEPT !.pc = "done"]
                     ELSE [pc |-> "loaded", filePath |-> filePath, lines |-> lines,
                           lineTracker |-> Some(getLineTracker(lineTracker, now))]]
    /\ ledger' = [ledger EXCEPT !.alone = @ /\ (lines = << >> \/ ~InFlight)]
    /\ UNCHANGED <<service, input, output>>
    /\ UNCHANGED <<lineTracker, isChecking, checks, repos>>

\* The rest of recordLinesWritten: the batch, the ratio, saveLineTracker
SaveLinesWritten(w) ==
    /\ writes[w].pc = "loaded"
    /\ lineTracker' = Some(Recorded(writes[w].lineTracker[1], writes[w].filePath,
                                    writes[w].lines, now))
    /\ writes' = [writes EXCEPT ![w] = [NoWrite EXCEPT !.pc = "done"]]
    /\ ledger' = [ledger EXCEPT
                     !.written[writes[w].filePath] =
                         [h \in LineHashes |->
                             @[h] + Occurrences(createLineHashes(writes[w].lines), h)]]
    /\ UNCHANGED <<service, input, output>>
    /\ UNCHANGED <<isChecking, checks, repos>>

\* checkGitCommits up to the await of getLineTracker: a call without
\* forceRun returns while a check is running
checkGitCommits(k, forceRun) ==
    /\ checks[k].pc = "idle"
    /\ \A j \in 1..MaxChecks : j < k => checks[j].pc # "idle"
    /\ IF isChecking /\ ~forceRun
       THEN /\ checks' = [checks EXCEPT ![k] = [NoCheck EXCEPT !.pc = "done"]]
            /\ UNCHANGED <<isChecking, ledger>>
       ELSE /\ isChecking' = TRUE
            /\ checks' = [checks EXCEPT ![k] =
                             [NoCheck EXCEPT
                                 !.pc = "loaded",
                                 !.lineTracker = Some(getLineTracker(lineTracker, now))]]
            /\ ledger' = [ledger EXCEPT !.alone = @ /\ ~InFlight]
    /\ UNCHANGED <<service, input, output>>
    /\ UNCHANGED <<lineTracker, writes, repos>>

\* Skip if no pending lines, else enter the loop over the workspace folders
EnterFolders(k) ==
    /\ checks[k].pc = "loaded"
    /\ IF DOMAIN checks[k].lineTracker[1].pendingLines = {}
       THEN /\ isChecking' = FALSE
            /\ checks' = [checks EXCEPT ![k] = [NoCheck EXCEPT !.pc = "done"]]
       ELSE /\ checks' = [checks EXCEPT ![k].pc = "folders"]
            /\ UNCHANGED isChecking
    /\ UNCHANGED <<service, input, output>>
    /\ UNCHANGED <<lineTracker, writes, repos, ledger>>

\* Where the pass goes after git access failed for a folder: the catch of
\* the folder's try block, then the next folder
AfterFailureAborts(check) == [check EXCEPT !.pc = "caught"]
AfterFailure(check) == [check EXCEPT !.folder = @ + 1]

\* One workspace folder: it is not a repository, or git log fails twice,
\* or its commits are matched against the pending lines of its files
CheckFolder(k, access) ==
    /\ checks[k].pc = "folders"
    /\ checks[k].folder <= Len(workspaceFolders)
    /\ LET folder == workspaceFolders[checks[k].folder]
           tracker == checks[k].lineTracker[1]
           commits == LogSince(repos[folder], sinceDate(tracker))
       IN  IF access # "ok"
           THEN /\ checks' = [checks EXCEPT ![k] =
                                 AfterFailure([checks[k] EXCEPT !.failed = @ \cup {folder}])]
                /\ UNCHANGED ledger
           ELSE /\ checks' = [checks EXCEPT
                                 ![k].lineTracker =
                                     Some(FolderChecked(tracker, folder, commits)),
                                 ![k].visited = @ \cup {folder},
                                 ![k].folder = @ + 1]
                /\ ledger' = [ledger EXCEPT
                                 !.credited =
                                     [filePath \in FilePaths |->
                                         IF filePath \in FilesChecked(tracker, folder)
                                         THEN [h \in LineHashes |->
                                                  @[filePath][h]
                                                      + FileChecked(tracker, filePath,
                                                                    commits).credited[h]]
                                         ELSE @[filePath]]]
    /\ UNCHANGED <<service, input, output>>
    /\ UNCHANGED <<lineTracker, isChecking, writes, repos>>

\* After the folders: pruneOldEntries, updateCommitRatio, lastCheckTimestamp,
\* saveLineTracker
SaveCheck(k) ==
    /\ checks[k].pc = "folders"
    /\ checks[k].folder > Len(workspaceFolders)
    /\ lineTracker' = Some(Completed(checks[k].lineTracker[1], now))
    /\ checks' = [checks EXCEPT ![k].pc = "saved", ![k].lineTracker = None]
    /\ UNCHANGED <<service, input, output>>
    /\ UNCHANGED <<isChecking, writes, repos, ledger>>

\* The statistics are refreshed, or the pass was abandoned: finally
FinishCheck(k) ==
    /\ checks[k].pc \in {"saved", "caught"}
    /\ isChecking' = FALSE
    /\ checks' = [checks EXCEPT ![k] = [NoCheck EXCEPT !.pc = "done"]]
    /\ UNCHANGED <<service, input, output>>
    /\ UNCHANGED <<lineTracker, writes, repos, ledger>>

\* The user commits in a workspace folder
Commit(folder, tree) ==
    /\ Len(repos["/w1"]) + Len(repos["/w2"]) < MaxCommits
    /\ repos' = [repos EXCEPT ![folder] = <<[date |-> now, tree |-> tree]>> \o @]
    /\ UNCHANGED <<service, input, output>>
    /\ UNCHANGED <<lineTracker, isChecking, checks, writes, ledger>>

\* Eight days pass between two operations: no call stays in flight that long
DaysPass ==
    /\ now < 9 * DayMs
    /\ \A w \in 1..MaxWrites : writes[w].pc \in {"idle", "done"}
    /\ \A k \in 1..MaxChecks : checks[k].pc \in {"idle", "done"}
    /\ now' = now + 8 * DayMs
    /\ UNCHANGED <<taskHistory, uiMessages, metricsData, metricsCache, isCalculating,
                   lastCalculationTime, memoryCache, proc, returned, purge, used,
                   backgroundUpdatePromise, input, output, tracking, reconciliation>>

NextLineTracker ==
    \/ \E w \in 1..MaxWrites, edit \in Edits :
          recordLinesWritten(w, edit.filePath, edit.lines)
    \/ \E w \in 1..MaxWrites : SaveLinesWritten(w)
    \/ \E k \in 1..MaxChecks, forceRun \in BOOLEAN : checkGitCommits(k, forceRun)
    \/ \E k \in 1..MaxChecks : EnterFolders(k)
    \/ \E k \in 1..MaxChecks, access \in {"ok", "notRepo", "logFails"} :
          CheckFolder(k, access)
    \/ \E k \in 1..MaxChecks : SaveCheck(k)
    \/ \E k \in 1..MaxChecks : FinishCheck(k)
    \/ \E folder \in Range(workspaceFolders) : \E tree \in Trees(folder) :
          Commit(folder, tree)
    \/ DaysPass

SpecLineTracker == InitLineTracker /\ [][NextLineTracker]_vars

--------------------------------------------------------------------------
\* The reconciliation of the task history at startup, next to the
\* controller's operations on the history

\* The first position from i on whose task lacks the completed field; 0 when
\* every task from i on has it
NextToReconcile(history, i) ==
    LET lacking == {j \in i..Len(history) : history[j].completed = "undefined"}
    IN  IF lacking = {} THEN 0 ELSE SetMin(lacking)

\* The loop of updateExistingTaskHistory from position i up to its next await
\* of loadTaskMessages, or past its end up to the await of the save
Reconciling(history, i, updated) ==
    LET j == NextToReconcile(history, i)
    IN  [pc |-> IF j # 0 THEN "load" ELSE IF updated THEN "save" ELSE "done",
         taskHistory |-> history, i |-> j, updated |-> updated]

\* The histories an earlier version of the extension left: task A without
\* the completed field, task B with or without it
OldHistories ==
    {<<Item("A", StartOf("A"), FALSE)>>,
     <<Item("A", StartOf("A"), FALSE), Item("B", StartOf("B"), TRUE)>>,
     <<Item("A", StartOf("A"), FALSE), Item("B", StartOf("B"), FALSE)>>,
     <<Item("B", StartOf("B"), TRUE)>>}

InitReconcile ==
    /\ taskHistory \in OldHistories
    /\ \E a \in {None} \cup {Some(tr) : tr \in TranscriptsOf("A")} :
          uiMessages = [id \in TaskIds |->
                           IF id = "A" THEN a
                           ELSE IF id \in TaskIdsOf(taskHistory)
                                THEN Some(FirstTranscript(id)) ELSE None]
    /\ metricsData = None
    /\ metricsCache = None
    /\ isCalculating = FALSE
    /\ lastCalculationTime = 0
    /\ memoryCache = [id \in TaskIds |-> None]
    /\ proc = [p \in Procs |-> Idle]
    /\ returned = [c \in Callers |-> NoReturn]
    /\ now = Now0
    /\ purge = "no"
    /\ used = [calls |-> 0, events |-> 0]
    /\ backgroundUpdatePromise = FALSE
    /\ reconciliation = NotReconciling
    /\ input = None
    /\ output = None
    /\ TrackerAtRest

\* Everything but the task history and the reconciliation
Elsewhere ==
    <<uiMessages, persisted, isCalculating, lastCalculationTime, memoryCache, proc,
      returned, now, purge, used, backgroundUpdatePromise, input, output, tracking>>

\* startAggregation calls updateExistingTaskHistory, which awaits the state
updateExistingTaskHistory ==
    /\ reconciliation.pc = "idle"
    /\ reconciliation' = [NotReconciling EXCEPT !.pc = "read"]
    /\ UNCHANGED <<taskHistory, Elsewhere>>

\* The task history arrives: nothing to do for an empty one, else the loop
\* starts
ReadHistoryAtStartup ==
    /\ reconciliation.pc = "read"
    /\ reconciliation' = IF taskHistory = << >> THEN [NotReconciling EXCEPT !.pc = "done"]
                         ELSE Reconciling(taskHistory, 1, FALSE)
    /\ UNCHANGED <<taskHistory, Elsewhere>>

\* loadTaskMessages returns for the task at position i: with a transcript the
\* item gets its completion status, without one it is left as it is
ReconcileTask ==
    /\ reconciliation.pc = "load"
    /\ LET history == reconciliation.taskHistory
           i == reconciliation.i
           taskMessages == uiMessages[history[i].id]
       IN  reconciliation' =
              IF taskMessages # None
              THEN Reconciling([history EXCEPT
                                   ![i] = Reconciled(history[i], taskMessages[1], now)],
                               i + 1, TRUE)
              ELSE Reconciling(history, i + 1, reconciliation.updated)
    /\ UNCHANGED <<taskHistory, Elsewhere>>

\* updateGlobalState(this.context, "taskHistory", taskHistory)
SaveReconciled ==
    /\ reconciliation.pc = "save"
    /\ taskHistory' = reconciliation.taskHistory
    /\ reconciliation' = [reconciliation EXCEPT !.pc = "done"]
    /\ UNCHANGED Elsewhere

NextReconcile ==
    \/ updateExistingTaskHistory
    \/ ReadHistoryAtStartup
    \/ ReconcileTask
    \/ SaveReconciled
    \/ \E item \in HistoryItems : updateTaskHistory(item)
    \/ \E id \in TaskIds : deleteTaskFromState(id)

SpecReconcile == InitReconcile /\ [][NextReconcile]_vars

--------------------------------------------------------------------------
\* Serialisation of recomputes (spec section 5, section 4.4)

\* A process is inside a recompute pipeline: it extracts, calculates or saves
Recomputing(p) ==
    proc[p].pc \in {"incrLoad", "fullStart", "fullLoad", "save1", "save2", "saved"}

\* A getMetrics call that has set isCalculating and has not left its try block
Calculating(c) == proc[c].pc = "readHist" \/ Recomputing(c)

\* A step of the program itself, not a rejected storage operation, a stop of
\* the host or an operation of the controller
ProgramStep == used'.events = used.events

\* C1: recomputes are serialised: under any interleaving of getMetrics calls
\* and the background check, at most one recompute pipeline executes at a time.
C1_OneRecomputeAtATime ==
    Cardinality({p \in Procs : Recomputing(p)}) <= 1

\* C2: a getMetrics call that starts while the flag is set gets the persisted
\* snapshot (the empty snapshot when none is persisted) and writes nothing:
\* snapshot, cache, flag and calculation time stay as they are.
C2_InFlightCallWritesNothing ==
    [][\A c \in Callers :
          /\ (proc[c].pc = "idle" /\ proc'[c].pc # "idle" /\ isCalculating)
                => /\ proc'[c].pc = "inflight"
                   /\ proc'[c].cachedMetrics = metricsData
                   /\ UNCHANGED <<durable, isCalculating, lastCalculationTime>>
          /\ (proc[c].pc = "inflight" /\ ProgramStep /\ proc'[c].pc # "inflight")
                => /\ returned'[c].status = "value"
                   /\ returned'[c].value =
                         IF proc[c].cachedMetrics # None THEN proc[c].cachedMetrics
                         ELSE Some(getEmptyMetrics(now))
                   /\ proc'[c].pc = "idle"
                   /\ \A p \in Procs \ {c} : proc'[p] = proc[p]
                   /\ UNCHANGED <<durable, isCalculating, lastCalculationTime>>]_vars

C2_Witness ==
    \E c \in Callers :
        /\ returned[c].status = "value" /\ returned[c].path = "inflight"
        /\ returned[c].value # None /\ returned[c].value = metricsData
        /\ isCalculating

\* C3: the flag is reset on every exit of a recompute (return, empty history,
\* error): it is never true while no getMetrics call is between setting it
\* and leaving its try block, and the call that leaves it leaves it false.
C3_FlagResetOnEveryExit ==
    /\ [](isCalculating => \E c \in Callers : Calculating(c))
    /\ [][\A c \in Callers :
             (Calculating(c) /\ proc'[c].pc = "idle") => ~isCalculating']_vars

C3_Witness ==
    \E c \in Callers :
        /\ returned[c].status = "error"
        /\ returned[c].path \in {"full", "incremental"}
        /\ ~isCalculating

\* What C4 requires of the persisted cache cache after a recompute that used
\* the history taskHistory_ and calculated its snapshot from the store rawData
CacheReflects(cache, taskHistory_, rawData) ==
    /\ cache # None
    /\ DOMAIN cache[1].taskMetadataIndex = TaskIdsOf(taskHistory_)
    /\ \A task \in Range(taskHistory_) :
          cache[1].taskMetadataIndex[task.id].lastModified = task.ts
    /\ cache[1].rawData = rawData

\* C4: after every completed recompute, the incremental ones included, the
\* persisted cache has exactly the task ids of the history the recompute
\* used, each with lastModified equal to the task's ts, and its raw store is
\* the store the persisted snapshot was calculated from.
C4_CacheReflectsRecompute ==
    [][\A p \in Procs :
          (proc[p].pc = "save2" /\ proc'[p].pc = "saved")
             => CacheReflects(metricsCache', proc[p].taskHistory, proc[p].rawData)]_vars

\* A snapshot carries something of task id: a task counted on its day, tokens
\* or cost on its day, a row of its tool or of its model, a count of its mode
ModeOf(id) == IF id = "A" THEN "act" ELSE "plan"

Contributes(snapshot, id) ==
    LET day == DayOf(StartOf(id))
    IN  \/ \E b \in Range(snapshot.taskMetrics.tasksPerDay) : b.date = day /\ b.count > 0
        \/ \E b \in Range(snapshot.tokenMetrics.usageByDay) :
              b.date = day /\ (b.tokensIn > 0 \/ b.tokensOut > 0 \/ b.cost > 0)
        \/ \E r \in Range(snapshot.toolMetrics.tools) : r.name = ToolOf(id)
        \/ \E r \in Range(snapshot.modelMetrics.models) : r.name = ModelOf(id)
        \/ snapshot.modelMetrics.modeUsage[ModeOf(id)] > 0

Without(snapshot, gone) ==
    /\ \A id \in gone : ~Contributes(snapshot, id)
    /\ snapshot.taskMetrics.totalTasks <= Cardinality(TaskIds \ gone)
    /\ snapshot.taskMetrics.completedTasks <= Cardinality(TaskIds \ gone)

\* C5 as stated: after a task is removed from the history and a
\* getMetrics(true) call completes, the returned snapshot has no contribution
\* of that task.
C5_ForcedCallForgetsRemovedTask ==
    \A c \in Callers :
        (returned[c].status = "value" /\ returned[c].force)
           => Without(returned[c].value[1], returned[c].gone)

\* C5: after a task is removed from the history and a getMetrics(true) call
\* that did not start while the flag was set completes, the returned snapshot
\* has no contribution of that task: no task count, tokens, cost, tool row,
\* model row or mode count.
C5_ForcedRecomputeForgetsRemovedTask ==
    \A c \in Callers :
        (returned[c].status = "value" /\ returned[c].force /\ returned[c].path # "inflight")
           => Without(returned[c].value[1], returned[c].gone)

C5_Witness ==
    \E c \in Callers : \E id \in TaskIds :
        /\ proc[c].pc = "saved" /\ proc[c].forceRecalculate /\ proc[c].path = "full"
        /\ id \in proc[c].gone
        /\ proc[c].cachedMetrics # None /\ Contributes(proc[c].cachedMetrics[1], id)
        /\ ~Contributes(proc[c].metrics[1], id)
        /\ proc[c].metrics[1].taskMetrics.totalTasks > 0
        /\ metricsData = proc[c].metrics

--------------------------------------------------------------------------
\* Purge, failed saves, incremental skip, background check, fast path

\* C6: after the whole task history is purged, the next recompute leaves no
\* TaskRecord and no fact in the persisted store, and the snapshot that later
\* calls are served from has totalTasks = 0.
C6_PurgeCascades ==
    purge = "recomputed"
       => /\ metricsCache # None => metricsCache[1].rawData = EmptyRawData
          /\ metricsData # None => metricsData[1].taskMetrics.totalTasks = 0

\* C7: a save that fails or is cut short by a stop of the host leaves the
\* persisted snapshot and the persisted cache both as they were before that
\* save, and a caller whose save failed gets the error.
C7_FailedSaveKeepsBoth ==
    [][\A p \in Procs :
          (proc[p].pc \in {"save1", "save2"} /\ ~ProgramStep /\ proc'[p].pc = "idle")
             => /\ persisted' = IF proc[p].pc = "save1" THEN persisted
                                ELSE proc[p].before[1]
                /\ (p \in Callers /\ returned'[p].status # "none")
                      => returned'[p].status = "error"]_vars

\* C8: an incremental recompute skips a task of the history exactly when the
\* task is indexed and its ts equals the indexed lastModified.
C8_SkipsExactlyUnchangedTasks ==
    \A p \in Procs :
        (proc[p].path \in {"incremental", "background"} /\ Recomputing(p))
           => LET index == proc[p].metricsCache[1].taskMetadataIndex
                  processed == Range(tasksToProcess(proc[p].taskHistory,
                                                    proc[p].metricsCache[1]))
              IN  \A task \in Range(proc[p].taskHistory) :
                      task \notin processed
                         <=> (task.id \in DOMAIN index
                                 /\ index[task.id].lastModified = task.ts)

\* What C9 names as the reasons for the background check to recompute
Stale(taskHistory_, index) ==
    \/ Cardinality(DOMAIN index) # Len(taskHistory_)
    \/ \E task \in Range(taskHistory_) :
          task.id \notin DOMAIN index \/ task.ts > index[task.id].lastModified

\* C9: the background check starts an incremental recompute exactly when the
\* indexed task count differs from the history's, a task of the history is
\* not indexed, or a task's ts is greater than its indexed lastModified;
\* otherwise it persists nothing.
C9_BackgroundRecomputesExactlyWhenStale ==
    [][(proc[BG].pc = "bgReadHist" /\ ProgramStep /\ proc'[BG].pc # "bgReadHist")
          => /\ Recomputing(BG)'
                   <=> Stale(taskHistory, proc[BG].metricsCache[1].taskMetadataIndex)
             /\ UNCHANGED persisted]_vars

\* C10: a call that is not forced, has read a persisted snapshot and finds the
\* last calculation less than 5 s ago returns that snapshot without setting
\* the flag, extracting anything or writing anything.
C10_FastPathReturnsSnapshot ==
    [][\A c \in Callers :
          (/\ proc[c].pc = "decide" /\ ProgramStep /\ proc'[c].pc # "decide"
           /\ proc[c].cachedMetrics # None
           /\ ~proc[c].forceRecalculate
           /\ now - lastCalculationTime < 5000)
             => /\ proc'[c].pc = "idle"
                /\ returned'[c].status = "value"
                /\ returned'[c].value = proc[c].cachedMetrics
                /\ ~Recomputing(c)'
                /\ UNCHANGED <<durable, isCalculating, lastCalculationTime, memoryCache>>]_vars

C10_Witness ==
    \E c \in Callers :
        /\ returned[c].status = "value" /\ returned[c].path = "fast"
        /\ ~returned[c].force
        /\ returned[c].value # None /\ returned[c].value = metricsData
        /\ now - lastCalculationTime < 5000

--------------------------------------------------------------------------
\* Background check slot, incremental frame, repeatability, transcript cache

\* A getMetrics call returns by the fast path in this step
FastReturn(c) ==
    /\ proc[c].pc = "decide" /\ proc'[c].pc = "idle" /\ ProgramStep
    /\ returned'[c].path = "fast"

\* C11: at most one background check is in flight: the promise slot is set
\* exactly while a check runs, a call of checkForUpdatesInBackground while it
\* is set starts nothing and disturbs nothing, and the slot is clear as soon
\* as the check has ended, by its return or by an error.
C11_OneBackgroundCheck ==
    /\ [](backgroundUpdatePromise <=> proc[BG].pc # "idle")
    /\ [][\A c \in Callers :
             (FastReturn(c) /\ backgroundUpdatePromise)
                => proc'[BG] = proc[BG] /\ backgroundUpdatePromise']_vars
    /\ [][(proc[BG].pc # "idle" /\ proc'[BG].pc = "idle")
             => ~backgroundUpdatePromise']_vars

C11_Witness ==
    /\ backgroundUpdatePromise
    /\ proc[BG].pc \in {"incrLoad", "save1", "save2", "saved"}
    /\ \E c \in Callers : returned[c].path = "fast" /\ returned[c].busy

\* The TaskRecord and the facts of task id in a raw store
FactsOf(rawData, id) ==
    [tasks |-> SelectSeq(rawData.tasks, LAMBDA t : t.id = id),
     tokenUsage |-> SelectSeq(rawData.tokenUsage, LAMBDA u : u.taskId = id),
     toolUsage |-> SelectSeq(rawData.toolUsage, LAMBDA u : u.taskId = id),
     modeSwitches |-> SelectSeq(rawData.modeSwitches, LAMBDA m : m.taskId = id)]

\* A process is in an incremental recompute, or has finished its store
Incrementing(p) == proc[p].path \in {"incremental", "background"} /\ Recomputing(p)

\* History tasks of an incremental recompute that are indexed with their ts
Untouched(p) ==
    {task \in Range(proc[p].taskHistory) :
        /\ task.id \in DOMAIN proc[p].metricsCache[1].taskMetadataIndex
        /\ proc[p].metricsCache[1].taskMetadataIndex[task.id].lastModified = task.ts}

\* C12: an incremental recompute leaves the TaskRecord and the token, tool
\* and mode-switch facts of every task that is neither new, changed nor
\* deleted exactly as they are in the cached raw store.
C12_IncrementalKeepsUntouchedTasks ==
    \A p \in Procs :
        Incrementing(p)
           => \A task \in Untouched(p) :
                 FactsOf(proc[p].rawData, task.id)
                    = FactsOf(proc[p].metricsCache[1].rawData, task.id)

C12_Witness ==
    \E p \in Procs :
        /\ Incrementing(p) /\ proc[p].pc = "save1"
        /\ \E task \in Untouched(p) :
              FactsOf(proc[p].rawData, task.id).toolUsage # << >>
        /\ \E task \in Range(proc[p].taskHistory) :
              /\ task \notin Untouched(p)
              /\ FactsOf(proc[p].rawData, task.id).toolUsage # << >>

\* The task history and the transcript files are those of a store the
\* session started with
Unmodified == \E st \in Stores : taskHistory = st.history /\ uiMessages = st.files

\* C13: with a task history and transcripts that do not change, a
\* getMetrics(true) call returns a snapshot identical to the one the
\* calculation before it produced.
C13_ForcedCallsRepeat ==
    \A c \in Callers :
        (/\ Unmodified
         /\ proc[c].pc = "saved" /\ proc[c].forceRecalculate /\ proc[c].path = "full"
         /\ proc[c].cachedMetrics # None)
           => proc[c].metrics = proc[c].cachedMetrics

\* The history tasks an incremental recompute of p has processed in this
\* step: those it had to process before the step and has not after it
JustProcessed(p) ==
    LET before == IF proc[p].pc = "incrLoad" THEN Range(proc[p].pending)
                  ELSE Range(tasksToProcess(proc'[p].taskHistory, proc'[p].metricsCache[1]))
    IN  IF /\ proc[p].pc \in {"readHist", "bgReadHist", "incrLoad"}
           /\ Incrementing(p)' /\ proc'[p].pc \in {"incrLoad", "save1"}
        THEN before \ Range(proc'[p].pending)
        ELSE {}

\* The record and facts of a task extracted from a transcript file
FactsFromFile(task, file, at) ==
    FactsOf(WithMessages(PushTask(EmptyRawData, task), task, file, at), task.id)

\* C14: the transcript cache never changes results: the facts of every task
\* an incremental recompute reprocesses are those of the task's transcript
\* file at that time, whether or not the cache holds a transcript of it.
C14_TranscriptCacheIsTransparent ==
    [][\A p \in Procs : \A task \in JustProcessed(p) :
          FactsOf(proc'[p].rawData, task.id)
             = FactsFromFile(task, uiMessages[task.id], now)]_vars

--------------------------------------------------------------------------
\* Claims about the deduplicator

\* A list of facts as a collection: how many times each fact occurs
Collection(s) == [f \in Range(s) |-> Cardinality({i \in 1..Len(s) : s[i] = f})]

\* C15: deduplicateTokenUsage is idempotent: applied to its own output it
\* yields the same collection of facts.
C15_DeduplicateIsIdempotent ==
    output # None
       => Collection(deduplicateTokenUsage(output[1])) = Collection(output[1])

\* Entries were merged, and a second application lists the result in
\* another order
C15_Witness ==
    /\ output # None
    /\ Len(output[1]) < Len(input[1])
    /\ deduplicateTokenUsage(output[1]) # output[1]

\* The key the claim names: task, minute and model
KeyOf(u) == <<u.taskId, u.timestamp \div MinuteMs, u.model>>

WithKey(s, key) == {i \in 1..Len(s) : KeyOf(s[i]) = key}

\* C16: the output holds exactly one fact per key (taskId, minute, model) of
\* the input, whose tokensIn, tokensOut and cost are each the maximum of the
\* field over the input facts with the key; facts with different keys are
\* never merged.
C16_OneFactPerKeyWithMaxima ==
    output # None =>
        LET in == input[1]
            out == output[1]
        IN  /\ {KeyOf(out[j]) : j \in 1..Len(out)} = {KeyOf(in[i]) : i \in 1..Len(in)}
            /\ \A j \in 1..Len(out) :
                  LET same == WithKey(in, KeyOf(out[j]))
                  IN  /\ WithKey(out, KeyOf(out[j])) = {j}
                      /\ out[j].tokensIn = SetMax({in[i].tokensIn : i \in same})
                      /\ out[j].tokensOut = SetMax({in[i].tokensOut : i \in same})
                      /\ out[j].cost = SetMax({in[i].cost : i \in same})

\* Three facts of two keys, the maxima of one key spread over two facts
C16_Witness ==
    /\ output # None
    /\ Len(input[1]) = 3 /\ Len(output[1]) = 2
    /\ \E j \in 1..2 : \A i \in 1..3 :
          <<input[1][i].tokensIn, input[1][i].tokensOut, input[1][i].cost>>
             # <<output[1][j].tokensIn, output[1][j].tokensOut, output[1][j].cost>>

--------------------------------------------------------------------------
\* Claims about the completion rules

Events == input[1].messages
Extracted == output[1].tasks[1]

\* The events matching each rule of the completion procedure
ResultEvents ==
    {i \in 1..Len(Events) :
        IsSay(Events[i], "completion_result") \/ IsAsk(Events[i], "completion_result")}
ToolEvents ==
    {i \in 1..Len(Events) :
        /\ IsSay(Events[i], "tool")
        /\ Events[i].text.tool \in {"attempt_completion", "completion_result"}}
FeedbackEvents == {i \in 2..Len(Events) : IsSay(Events[i], "user_feedback")}
CheckpointEvents ==
    {i \in 1..Len(Events) :
        /\ IsSay(Events[i], "checkpoint_created") /\ Events[i].lastCheckpointHash
        /\ i > Len(Events) - RecentCheckpoint}
TsOf(S) == {Events[i].ts : i \in S}

\* C17: the first matching rule wins: when a transcript holds a completion
\* result, the highest-priority signal, the recorded completedTs is a
\* completion result's timestamp, whatever lower-priority events follow.
C17_FirstMatchingRuleWins ==
    (output # None /\ ResultEvents # {}) => Extracted.completedTs \in TsOf(ResultEvents)

\* C18: when the only completion signal of a transcript is a completion
\* tool, the task is recorded completed with the tool event's timestamp.
C18_CompletionToolStampsTask ==
    (/\ output # None
     /\ ToolEvents # {}
     /\ ResultEvents = {} /\ FeedbackEvents = {} /\ CheckpointEvents = {})
        => Extracted.completed /\ Extracted.completedTs \in TsOf(ToolEvents)

\* C19: when no higher-priority rule fires, the task is recorded completed
\* by a checkpoint, with that checkpoint's timestamp, exactly when a
\* checkpoint is among the final 5 events of the transcript.
C19_CheckpointInFinalFive ==
    (/\ output # None
     /\ ResultEvents = {} /\ ToolEvents = {} /\ FeedbackEvents = {})
        => /\ Extracted.completed <=> CheckpointEvents # {}
           /\ Extracted.completed => Extracted.completedTs \in TsOf(CheckpointEvents)

--------------------------------------------------------------------------
\* Claims about the task statistics

HasTime(ts) == ts # UNDEF /\ ts # 0

\* The end the claim names: completedTs when there is one, else endTime
EndOrCompletion(t) == IF HasTime(t.completedTs) THEN t.completedTs ELSE t.endTime

\* The completed tasks with a start time and a completion or end time
Measured ==
    {i \in 1..Len(input[1].tasks) :
        LET t == input[1].tasks[i]
        IN  /\ t.completed /\ HasTime(t.startTime)
            /\ (HasTime(t.completedTs) \/ HasTime(t.endTime))}

Distance(a, b) == IF a >= b THEN a - b ELSE b - a

RECURSIVE TotalDistance(_)
TotalDistance(S) ==
    IF S = {} THEN 0
    ELSE LET i == CHOOSE x \in S : TRUE
             t == input[1].tasks[i]
         IN  Distance(EndOrCompletion(t), t.startTime) + TotalDistance(S \ {i})

\* C20: averageCompletionTimeMs is the mean of |end - startTime| over the
\* completed tasks with a start time and a completion or end time, completedTs
\* preferred over endTime, and is never negative.
C20_AverageOfAbsoluteDurations ==
    output # None =>
        LET average == output[1].averageCompletionTimeMs
        IN  /\ average.den > 0 /\ average.num >= 0
            /\ Measured # {} =>
                  average.num * Cardinality(Measured)
                     = TotalDistance(Measured) * average.den

\* Two measured tasks, one completed before its start and one after
C20_Witness ==
    /\ output # None
    /\ \E i, j \in Measured :
          /\ input[1].tasks[i].completedTs = 2000 /\ input[1].tasks[i].startTime = 5000
          /\ input[1].tasks[j].completedTs = 9000
    /\ output[1].averageCompletionTimeMs.num > 0

--------------------------------------------------------------------------
\* Claims about the date ranges

Ranged == output # None /\ output[1].result # None
AllResult == output[1].allMetrics
RangeResult == output[1].result[1]

\* The entries of a per-day series whose date lies in the last n days
InWindow(series, n) ==
    {i \in 1..Len(series) : series[i].date * DayMs >= DaysBefore(now, n)}

RECURSIVE SumOver(_, _, _)
SumOver(series, S, f) ==
    IF S = {} THEN 0
    ELSE LET i == CHOOSE x \in S : TRUE IN series[i][f] + SumOver(series, S \ {i}, f)

\* C21: the token totals of the "7d" result are the sums of the entries of
\* the "all" result's usageByDay whose date lies inside the 7-day window.
C21_SevenDayTotalsAreWindowSums ==
    (Ranged /\ input[1].range = "7d") =>
        LET series == AllResult.tokenMetrics.usageByDay
            window == InWindow(series, 7)
        IN  /\ RangeResult.tokenMetrics.totalTokensIn = SumOver(series, window, "tokensIn")
            /\ RangeResult.tokenMetrics.totalTokensOut = SumOver(series, window, "tokensOut")
            /\ RangeResult.tokenMetrics.totalCost = SumOver(series, window, "cost")

\* A "7d" result that counts some of the tokens of the snapshot and not all
C21_Witness ==
    /\ Ranged /\ input[1].range = "7d"
    /\ RangeResult.tokenMetrics.totalTokensIn > 0
    /\ RangeResult.tokenMetrics.totalTokensIn < AllResult.tokenMetrics.totalTokensIn

\* C28: in a "7d" or "30d" result every total is re-summed from the filtered
\* series: totalTasks is the sum of the counts of the returned tasksPerDay.
C28_RangeTotalsAreResummed ==
    (Ranged /\ input[1].range \in {"7d", "30d"}) =>
        RangeResult.taskMetrics.totalTasks
           = SumSeq(RangeResult.taskMetrics.tasksPerDay, "count", 1)

--------------------------------------------------------------------------
\* Claims about transcripts that cannot be read

\* The facts a transcript file should give a task: the history entry's token
\* fact, then one token fact per api_req event and one tool fact per tool
\* event whose text parses
ParsedTokenFacts(task, file) ==
    LET tr == IF file = None THEN << >> ELSE file[1]
        api == SelectSeq(tr, LAMBDA m :
                   /\ m.type = "say" /\ m.say \in {"api_req_started", "api_req_finished"}
                   /\ m.text.present /\ m.text.parses)
    IN  <<UsageOfItem(task)>> \o
        [i \in 1..Len(api) |->
            [taskId |-> task.id, tokensIn |-> api[i].text.tokensIn,
             tokensOut |-> api[i].text.tokensOut,
             model |-> IF api[i].text.model = NoStr THEN "unknown" ELSE api[i].text.model,
             timestamp |-> api[i].ts, cost |-> api[i].text.cost]]

ParsedToolFacts(task, file) ==
    LET tr == IF file = None THEN << >> ELSE file[1]
        tool == SelectSeq(tr, LAMBDA m :
                    m.type = "say" /\ m.say = "tool" /\ m.text.present /\ m.text.parses)
    IN  [i \in 1..Len(tool) |->
            [taskId |-> task.id,
             tool |-> IF tool[i].text.tool = NoStr THEN "unknown" ELSE tool[i].text.tool,
             success |-> tool[i].text.success, timestamp |-> tool[i].ts]]

FilesOf(id) == {None} \cup {Some(tr) : tr \in TranscriptsOf(id)}

\* The history entries a task can have
EntriesOf(id) ==
    {task \in HistoryItems \cup UNION {Range(st.history) : st \in Stores} : task.id = id}

FullyCollected(p) == proc[p].path = "full" /\ proc[p].pc \in {"save1", "save2", "saved"}

\* C22: an event whose JSON text cannot be parsed yields no fact and stops
\* nothing: after a full collection the token and tool facts of every task
\* collected are exactly those of the parseable events of one of its
\* transcripts.
C22_UnparseableEventIsSkipped ==
    \A p \in Procs : FullyCollected(p) =>
        \A i \in 1..Len(proc[p].rawData.tasks) :
            LET id == proc[p].rawData.tasks[i].id
            IN  \E task \in EntriesOf(id), file \in FilesOf(id) :
                    /\ SelectSeq(proc[p].rawData.tokenUsage, LAMBDA u : u.taskId = id)
                          = ParsedTokenFacts(task, file)
                    /\ SelectSeq(proc[p].rawData.toolUsage, LAMBDA u : u.taskId = id)
                          = ParsedToolFacts(task, file)

\* A recompute over task A, whose transcript starts with an unparseable
\* api_req event, and task B has saved its result: A has its tool fact and no
\* token fact but the history entry's, B has its facts
C22_Witness ==
    \E p \in Procs :
        /\ FullyCollected(p) /\ proc[p].pc = "saved"
        /\ metricsData = proc[p].metrics
        /\ {proc[p].rawData.tasks[i].id : i \in 1..Len(proc[p].rawData.tasks)} = {"A", "B"}
        /\ \E u \in Range(proc[p].rawData.toolUsage) : u.taskId = "A" /\ ~u.success
        /\ Len(SelectSeq(proc[p].rawData.tokenUsage, LAMBDA u : u.taskId = "A")) = 1
        /\ \E u \in Range(proc[p].rawData.tokenUsage) : u.taskId = "B" /\ u.model = "model-b"

\* A step of a full collection that takes up a task whose transcript file
\* is missing or unreadable
CollectsUnreadable(c) ==
    /\ proc[c].pc = "fullLoad" /\ proc'[c].pc \in {"fullLoad", "save1"}
    /\ proc'[c].pending # proc[c].pending
    /\ uiMessages[Head(proc[c].pending).id] = None

--------------------------------------------------------------------------
\* Claims about incremental and full recomputes

\* C29: after a completed recompute over a non-empty history the raw store
\* holds exactly one TaskRecord per task of the history, totalTasks is the
\* number of history tasks and completedTasks does not exceed it.
C29_OneRecordPerHistoryTask ==
    \A p \in Procs :
        (/\ proc[p].pc = "save1" /\ proc[p].taskHistory # << >>
         /\ used.events = 0)
            => LET store == proc[p].rawData
                   taskMetrics == proc[p].metrics[1].taskMetrics
               IN  /\ \A id \in TaskIdsOf(taskHistory) :
                          Len(SelectSeq(store.tasks, LAMBDA t : t.id = id)) = 1
                   /\ Len(store.tasks) = Len(taskHistory)
                   /\ taskMetrics.totalTasks = Len(taskHistory)
                   /\ taskMetrics.completedTasks <= taskMetrics.totalTasks

\* A snapshot without its calculation timestamps
Untimed(snapshot) ==
    [snapshot EXCEPT !.lastUpdated = 0, !.timestamp = 0,
                     !.tokenMetrics.lastUpdated = 0, !.tokenMetrics.timestamp = 0]

\* C30: an incremental recompute returns the snapshot a full recompute over
\* the same history and transcripts would return, calculation timestamps
\* aside.
C30_IncrementalAgreesWithFull ==
    \A p \in Procs :
        (/\ Incrementing(p) /\ proc[p].pc = "save1"
         /\ used.events = 0)
            => Untimed(proc[p].metrics[1])
                  = Untimed(calculateMetrics(
                                CollectAll(EmptyRawData, taskHistory, uiMessages, now), now))
--------------------------------------------------------------------------
\* Claims about the line tracker and the commit checker

Stored == lineTracker[1]

\* C24: each pending line hash is credited to totalLinesCommitted at most
\* once: while no call overlapped another, no hash of a file has been
\* counted as committed more often than it was written to the file
C24_HashCreditedAtMostOnce ==
    ledger.alone =>
        \A filePath \in FilePaths, h \in LineHashes :
            ledger.credited[filePath][h] <= ledger.written[filePath][h]

AllMatched(filePath) ==
    \A h \in LineHashes : ledger.credited[filePath][h] >= ledger.written[filePath][h]

\* C25: a file's batch leaves the stored pending lines only when all the
\* hashes written to the file have been matched or more than 14 days after
\* the batch was written (no call having overlapped another)
C25_BatchRemovedOnlyWhenMatchedOrOld ==
    [][\A filePath \in FilePaths :
          (/\ ledger.alone
           /\ lineTracker # None /\ lineTracker' # None
           /\ filePath \in DOMAIN lineTracker[1].pendingLines
           /\ filePath \notin DOMAIN lineTracker'[1].pendingLines)
          => \/ AllMatched(filePath)
             \/ now - lineTracker[1].pendingLines[filePath].timestamp > TWO_WEEKS_MS]_vars

\* No entry without hashes and no entry older than two weeks
IsPruned(lineTracker_, at) ==
    \A filePath \in DOMAIN lineTracker_.pendingLines :
        /\ lineTracker_.pendingLines[filePath].hashes # << >>
        /\ at - lineTracker_.pendingLines[filePath].timestamp <= TWO_WEEKS_MS

\* The ratio is the nearest whole percentage of committed over written
IsRoundedPercent(lineTracker_) ==
    LET c == lineTracker_.totalLinesCommitted
        w == lineTracker_.totalLinesWritten
        r == lineTracker_.commitRatio
    IN  IF w = 0 THEN r = 0
        ELSE 2 * w * r - w <= 200 * c /\ 200 * c < 2 * w * r + w

\* C26: a pass in which git access failed for a folder is not abandoned:
\* it goes on to the other folders, and when it saves, every folder has
\* either failed or been matched, and the state it stores holds the
\* credits of the matched folders, is pruned, has its ratio recomputed and
\* carries the time of the check
C26_FolderFailureDoesNotAbort ==
    [][\A k \in 1..MaxChecks :
          /\ checks'[k].failed # {} => checks'[k].pc \in {"folders", "saved"}
          /\ (checks[k].pc = "folders" /\ checks'[k].pc = "saved"
                  /\ checks[k].failed # {})
                => /\ checks[k].failed \cup checks[k].visited = Range(workspaceFolders)
                   /\ lineTracker' # None
                   /\ lineTracker'[1].totalLinesCommitted
                          = checks[k].lineTracker[1].totalLinesCommitted
                   /\ IsPruned(lineTracker'[1], now)
                   /\ IsRoundedPercent(lineTracker'[1])
                   /\ lineTracker'[1].lastCheckTimestamp = now]_vars

\* The first folder failed, the second was matched and its lines credited
C26_Witness ==
    \E k \in 1..MaxChecks :
        /\ checks[k].pc = "saved"
        /\ checks[k].failed = {"/w1"}
        /\ checks[k].visited = {"/w2"}
        /\ ledger.alone
        /\ lineTracker # None
        /\ Stored.totalLinesCommitted = 1
        /\ Stored.lastCheckTimestamp = now
        /\ DOMAIN Stored.pendingLines = {"/w1/src/a.ts"}

\* C27 as stated: the stored ratio is the plain quotient of the stored
\* totals, 0 when nothing was written
C27_RatioIsPlainQuotient ==
    lineTracker # None =>
        IF Stored.totalLinesWritten = 0 THEN Stored.commitRatio = 0
        ELSE Stored.commitRatio * Stored.totalLinesWritten = Stored.totalLinesCommitted

\* C27: in every stored tracker state the ratio is the quotient of the
\* totals stored with it as a percentage rounded to the nearest integer,
\* 0 when nothing was written
C27_RatioIsRoundedPercentage ==
    lineTracker # None => IsRoundedPercent(Stored)

\* Two of three lines committed: 67
C27_Witness ==
    /\ lineTracker # None
    /\ Stored.totalLinesWritten = 3
    /\ Stored.totalLinesCommitted = 2
    /\ Stored.commitRatio = 67
--------------------------------------------------------------------------
\* Claims about interleaved calls of the line tracker

RECURSIVE SumCounts(_, _)
SumCounts(counts, pairs) ==
    IF pairs = {} THEN 0
    ELSE LET pair == CHOOSE q \in pairs : TRUE
         IN  counts[pair[1]][pair[2]] + SumCounts(counts, pairs \ {pair})

\* The lines passed to the recordLinesWritten calls that have saved
LinesRecorded == SumCounts(ledger.written, FilePaths \X LineHashes)

\* C35: no recorded line is lost: when no call is in flight, the stored
\* totalLinesWritten is the number of lines passed to the completed
\* recordLinesWritten calls
C35_NoRecordedLineIsLost ==
    ~InFlight =>
        IF lineTracker = None THEN LinesRecorded = 0
        ELSE Stored.totalLinesWritten = LinesRecorded

\* C36: in every stored tracker state, and in every state a call works on,
\* totalLinesCommitted <= totalLinesWritten and the ratio is at most 100
C36_CommittedAtMostWritten ==
    /\ lineTracker # None =>
          /\ Stored.totalLinesCommitted <= Stored.totalLinesWritten
          /\ Stored.commitRatio <= 100
    /\ \A k \in 1..MaxChecks :
          checks[k].lineTracker # None =>
              checks[k].lineTracker[1].totalLinesCommitted
                  <= checks[k].lineTracker[1].totalLinesWritten

\* Every written line credited, one of them twice (C24), after calls that
\* overlapped
C36_Witness ==
    /\ lineTracker # None
    /\ ~ledger.alone
    /\ Stored.totalLinesWritten = 3
    /\ Stored.totalLinesCommitted = 3
    /\ Stored.commitRatio = 100
    /\ \E filePath \in FilePaths, h \in LineHashes :
          ledger.credited[filePath][h] > ledger.written[filePath][h]

Running(k) == checks[k].pc \in {"loaded", "folders", "saved", "caught"}

\* C37: isChecking is true exactly while a commit check is running
C37_IsCheckingWhileAnyCheckRuns ==
    isChecking <=> \E k \in 1..MaxChecks : Running(k)
--------------------------------------------------------------------------
\* Claims about the persisted cache under overlapping recomputes

\* C31: in every persisted cache the task ids of the index are the task ids
\* that have a record in the persisted raw store
C31_IndexMatchesStore ==
    metricsCache # None =>
        DOMAIN metricsCache[1].taskMetadataIndex
            = {metricsCache[1].rawData.tasks[i].id :
                  i \in 1..Len(metricsCache[1].rawData.tasks)}
\* A save of saveMetricsAndCache by process p: the snapshot or the cache
SavesResult(p) ==
    \/ proc[p].pc = "save1" /\ proc'[p].pc = "save2"
    \/ proc[p].pc = "save2" /\ proc'[p].pc = "saved"

\* C32: when the background update and a foreground recompute overlap, the
\* one that read the task history earlier never saves its snapshot or its
\* cache over the result the other one has saved
C32_OlderNeverOverwritesNewer ==
    [][\A p \in Procs :
          SavesResult(p) =>
              \A q \in proc[p].overtaken : (p = BG) = (q = BG)]_vars
--------------------------------------------------------------------------
\* Claims about the two completion procedures

\* C33: the startup reconciliation and the extractor classify every
\* transcript identically: the same completed flag and the same completion
\* timestamp
C33_ReconciliationAgreesWithExtractor ==
    output # None =>
        LET reconciled == Reconciled(input[1].task, Events, now)
        IN  /\ Extracted.completed = (reconciled.completed = "true")
            /\ Extracted.completedTs = reconciled.completedTs
--------------------------------------------------------------------------
\* Claims about the reconciliation at startup

\* The item differs from the item before in its completed and completedTs
\* fields at most
SameButCompletion(before, after) ==
    after = [before EXCEPT !.completed = after.completed,
                           !.completedTs = after.completedTs]

\* C34: the save of the startup reconciliation changes only the completed and
\* completedTs fields of entries that lacked a completed flag: it removes no
\* entry of the stored history, adds none and leaves every other field of
\* every entry as it is stored
C34_ReconciliationKeepsOtherChanges ==
    [][(reconciliation.pc = "save" /\ reconciliation'.pc = "done") =>
          /\ Len(taskHistory') = Len(taskHistory)
          /\ \A j \in 1..Len(taskHistory) :
                \/ taskHistory'[j] = taskHistory[j]
                \/ /\ taskHistory[j].completed = "undefined"
                   /\ j <= Len(taskHistory')
                   /\ SameButCompletion(taskHistory[j], taskHistory'[j])]_vars

==========================================================================
